---- MODULE Spec2Model ----
(***************************************************************************)
(* Model of the container layer of the tag library: the byte/bit           *)
(* primitives, the RIFF/WAV chunk walker (ReadWAVMeta), the FLAC block     *)
(* walker (ReadFLACMeta), the OGG page demuxer (oggDemuxer.Read) and the   *)
(* page loop above it (ReadOGGMeta), the format identifier (Identify),     *)
(* setWavOffset, the DSF header reader (ReadDSFMeta), cutBits and the      *)
(* MPEG duration calculator (getMP3Duration).                              *)
(*                                                                         *)
(* A stream is a sequence of bytes (0..255) with a 0-based cursor, as      *)
(* bytes.Reader implements io.ReadSeeker.  Each parser has its own         *)
(* variables and its own specification (SpecWAV, SpecFLAC, SpecOGG,        *)
(* SpecID, SpecMeta, SpecOff, SpecDSF, SpecBits, SpecMP3); the variables   *)
(* of the other parsers stay idle.                                         *)
(*                                                                         *)
(* Numbers: TLC's integers are 32-bit signed, so a time.Duration (int64    *)
(* nanoseconds) is kept as a record [sec, nsec] with 0 <= nsec < 10^9, and *)
(* a CRC (uint32) as four bytes.  The inputs are chosen so that every      *)
(* uint32 product the code forms stays below 2^31, where Go's unsigned     *)
(* arithmetic and TLC's agree.  A float64 is a significand of up to 53     *)
(* bits, held in limbs, with a binary exponent.                            *)
(***************************************************************************)
EXTENDS Integers, Sequences, FiniteSets, TLC

VARIABLES
    wavStream,   \* the bytes ReadWAVMeta is given
    wavPos,      \* cursor of the io.ReadSeeker
    wavPc,       \* "riff" | "chunks" | "done"
    wavM,        \* metadataWAV
    wavErr,      \* error returned by ReadWAVMeta ("nil" when none)
    wavChunk,    \* the chunk the last loop iteration processed
    wavGiven,    \* the parameters the stream was built from
    flacStream,  \* the bytes ReadFLACMeta is given
    flacPos,     \* cursor of the io.ReadSeeker
    flacPc,      \* "magic" | "blocks" | "done"
    flacM,       \* metadataFLAC
    flacErr,     \* error returned by ReadFLACMeta
    flacWalk,    \* the block headers read so far, in order
    flacGiven,   \* the blocks the stream was built from
    oggBufs,     \* oggDemuxer.packetBufs
    oggRes,      \* what the last oggDemuxer.Read returned
    oggTruth,    \* per serial number: the segments since the last packet boundary
    oggCalls,    \* number of Read calls made in the session
    idStream,    \* the bytes Identify is given
    idPos,       \* cursor of the io.ReadSeeker
    idPc,        \* "peek" | "wav" | "fallback" | "done"
    idDepth,     \* number of enclosing Identify calls that took the RIFF/WAVE branch
    idRes,       \* (format, fileType, err) returned by the outermost Identify
    idEntry,     \* cursor on entry to the innermost Identify call
    mp3Header,   \* the first frame header getMP3Duration is given
    mp3Size,     \* strippedSize
    mp3Pc,       \* "call" | "done"
    mp3Res,      \* what getMP3Duration returned
    bitsIn,      \* the buffer cutBits is given
    bitsOffset,  \* its bit offset
    bitsN,       \* its width
    bitsPacked,  \* the bit string packed into the buffer at (offset, width)
    bitsPc,      \* "call" | "done"
    bitsRes,     \* what cutBits returned
    offStream,   \* the bytes setWavOffset is given
    offPos,      \* cursor of the io.ReadSeeker
    offPc,       \* "call" | "done"
    offErr,      \* error returned by setWavOffset
    offGiven,    \* the parameters the stream was built from
    offBuild,    \* the text of setWavOffset the build has
    dsfStream,   \* the bytes ReadDSFMeta is given
    dsfPos,      \* cursor of the io.ReadSeeker
    dsfPc,       \* "call" | "tags" | "done"
    dsfErr,      \* error of ReadDSFMeta
    dsfDuration, \* the duration computed from the header
    dsfGiven,    \* the parameters the stream was built from
    metaRest,    \* the bytes ReadOGGMeta has not read yet
    metaBufs,    \* od.packetBufs
    metaExtracted, \* metaExtracted
    metaM,       \* metadataOGG
    metaPrevPos, \* prevPos
    metaPc,      \* "loop" | "done"
    metaErr,     \* error returned by ReadOGGMeta
    metaGiven    \* the pages the stream was built from and how it ends

wavVars  == <<wavStream, wavPos, wavPc, wavM, wavErr, wavChunk, wavGiven>>
flacVars == <<flacStream, flacPos, flacPc, flacM, flacErr, flacWalk, flacGiven>>
oggVars  == <<oggBufs, oggRes, oggTruth, oggCalls>>
idVars   == <<idStream, idPos, idPc, idDepth, idRes, idEntry>>
mp3Vars  == <<mp3Header, mp3Size, mp3Pc, mp3Res>>
bitsVars == <<bitsIn, bitsOffset, bitsN, bitsPacked, bitsPc, bitsRes>>
offVars  == <<offStream, offPos, offPc, offErr, offGiven, offBuild>>
dsfVars  == <<dsfStream, dsfPos, dsfPc, dsfErr, dsfDuration, dsfGiven>>
metaVars == <<metaRest, metaBufs, metaExtracted, metaM, metaPrevPos, metaPc, metaErr,
              metaGiven>>
auxVars  == <<mp3Vars, bitsVars, offVars, dsfVars, metaVars>>
vars     == <<wavVars, flacVars, oggVars, idVars, auxVars>>

----------------------------------------------------------------------------
(* Generic helpers.                                                        *)

Min(a, b) == IF a < b THEN a ELSE b
Max(a, b) == IF a > b THEN a ELSE b
Abs(a) == IF a < 0 THEN -a ELSE a

Zeros(n) == [i \in 1..n |-> 0]
Fill(n, v) == [i \in 1..n |-> v]

RECURSIVE LEBytes(_, _)
\* n as k little-endian bytes (what binary.Write(.., binary.LittleEndian, ..) emits)
LEBytes(n, k) == IF k = 0 THEN <<>> ELSE <<n % 256>> \o LEBytes(n \div 256, k - 1)

RECURSIVE BEBytes(_, _)
\* n as k big-endian bytes
BEBytes(n, k) == IF k = 0 THEN <<>> ELSE BEBytes(n \div 256, k - 1) \o <<n % 256>>

RECURSIVE Flatten(_)
Flatten(ss) == IF ss = <<>> THEN <<>> ELSE Head(ss) \o Flatten(Tail(ss))

\* ASCII magic strings, as bytes
StrRIFF == <<82, 73, 70, 70>>
StrWAVE == <<87, 65, 86, 69>>
StrFmt  == <<102, 109, 116, 32>>
StrData == <<100, 97, 116, 97>>
StrLIST == <<76, 73, 83, 84>>
StrFLaC == <<102, 76, 97, 67>>
StrOggS == <<79, 103, 103, 83>>
StrFtyp == <<102, 116, 121, 112>>
StrID3  == <<73, 68, 51>>
StrTAG  == <<84, 65, 71>>
StrM4A  == <<77, 52, 65>>
StrM4B  == <<77, 52, 66>>
StrM4P  == <<77, 52, 80>>
StrIsom == <<105, 115, 111, 109>>
StrJunk == <<74, 85, 78, 75>>
StrId3  == <<105, 100, 51>>

----------------------------------------------------------------------------
(* time.Duration                                                           *)

Dur(s, ns) == [sec |-> s, nsec |-> ns]
ZeroDur == Dur(0, 0)

\* time.Duration(n) * time.Second / time.Duration(d): floor(n * 10^9 / d) nanoseconds,
\* by long division in base 1000 (d * 1000 stays below 2^31)
MulSecondDiv(n, d) ==
    LET r0 == n % d
        ms == (r0 * 1000) \div d
        r1 == (r0 * 1000) % d
        us == (r1 * 1000) \div d
        r2 == (r1 * 1000) % d
        ns == (r2 * 1000) \div d
    IN  Dur(n \div d, ms * 1000000 + us * 1000 + ns)

\* Go's integer division n / d for d > 0: the quotient is truncated toward zero
Quo(n, d) == IF n >= 0 THEN n \div d ELSE -((-n) \div d)

\* time.Second * (time.Duration(n) / time.Duration(d)): whole seconds
SecondMulDiv(n, d) == Dur(Quo(n, d), 0)

\* |a - b| <= bound nanoseconds (bound < 10^9)
DurWithin(a, b, bound) ==
    /\ Abs(a.sec - b.sec) <= 1
    /\ Abs((a.sec - b.sec) * 1000000000 + (a.nsec - b.nsec)) <= bound

----------------------------------------------------------------------------
(* Byte primitives over an io.ReadSeeker (bytes.Reader): s is the stream,  *)
(* pos the 0-based cursor.  Each returns [err, val, pos].                  *)

\* readBytesMaxUpfront: the max up-front allocation allowed (10 << 20)
readBytesMaxUpfront == 10485760

\* readBytes: above readBytesMaxUpfront an io.CopyN into a buffer, for which
\* a source that ends before n bytes is io.EOF however many bytes it gave;
\* otherwise io.ReadFull of n bytes
readBytes(s, pos, n) ==
    IF n > readBytesMaxUpfront
    THEN IF pos + n > Len(s)
         THEN [err |-> "EOF", val |-> <<>>,
               pos |-> IF pos >= Len(s) THEN pos ELSE Len(s)]
         ELSE [err |-> "nil", val |-> SubSeq(s, pos + 1, pos + n),
               pos |-> pos + n]
    ELSE IF n = 0 THEN [err |-> "nil", val |-> <<>>, pos |-> pos]
    ELSE IF pos >= Len(s) THEN [err |-> "EOF", val |-> <<>>, pos |-> pos]
    ELSE IF pos + n > Len(s)
         THEN [err |-> "ErrUnexpectedEOF", val |-> <<>>, pos |-> Len(s)]
    ELSE [err |-> "nil", val |-> SubSeq(s, pos + 1, pos + n), pos |-> pos + n]

\* readString: the bytes read, compared with the magic strings above
readString(s, pos, n) == readBytes(s, pos, n)

\* binary.LittleEndian.Uint32
Uint32LE(b) == b[1] + 256 * b[2] + 65536 * b[3] + 16777216 * b[4]

readUint32LittleEndian(s, pos) ==
    LET r == readBytes(s, pos, 4)
    IN  IF r.err # "nil" THEN [r EXCEPT !.val = 0]
        ELSE [r EXCEPT !.val = Uint32LE(r.val)]

readUint16LittleEndian(s, pos) ==
    LET r == readBytes(s, pos, 2)
    IN  IF r.err # "nil" THEN [r EXCEPT !.val = 0]
        ELSE [r EXCEPT !.val = r.val[1] + 256 * r.val[2]]

RECURSIVE getInt(_)
\* getInt: big-endian base-256 value of the bytes
getInt(b) == IF b = <<>> THEN 0
             ELSE 256 * getInt(SubSeq(b, 1, Len(b) - 1)) + b[Len(b)]

readInt(s, pos, n) ==
    LET r == readBytes(s, pos, n)
    IN  IF r.err # "nil" THEN [r EXCEPT !.val = 0]
        ELSE [r EXCEPT !.val = getInt(r.val)]

\* getBit(b, n): x = byte(1 << n) is 0 for n >= 8 and b & 0 == 0 is true;
\* otherwise bit n (0 = least significant) of byte b
getBit(b, n) == IF n >= 8 THEN TRUE ELSE (b \div (2 ^ n)) % 2 = 1

\* io.Seeker.Seek of bytes.Reader: a negative target is an error, any other
\* target (also past the end) is accepted
SeekCurrent(pos, off) ==
    IF pos + off < 0 THEN [err |-> "seek", pos |-> pos]
    ELSE [err |-> "nil", pos |-> pos + off]

SeekEnd(s, pos, off) ==
    IF Len(s) + off < 0 THEN [err |-> "seek", pos |-> pos]
    ELSE [err |-> "nil", pos |-> Len(s) + off]

----------------------------------------------------------------------------
(* uint64 values as 64 bits, most significant first, and cutBits.          *)

U64Zero == [i \in 1..64 |-> 0]

\* uint64(n) for 0 <= n < 2^31
U64(n) == [i \in 1..64 |-> IF i < 34 THEN 0 ELSE (n \div (2 ^ (64 - i))) % 2]

\* u << k and u >> k
U64Shl(u, k) == [i \in 1..64 |-> IF i + k <= 64 THEN u[i + k] ELSE 0]
U64Shr(u, k) == [i \in 1..64 |-> IF i - k >= 1 THEN u[i - k] ELSE 0]

\* u | v and u & v
U64Or(u, v) == [i \in 1..64 |-> IF u[i] = 1 \/ v[i] = 1 THEN 1 ELSE 0]
U64And(u, v) == [i \in 1..64 |-> IF u[i] = 1 /\ v[i] = 1 THEN 1 ELSE 0]

\* (1 << k) - 1 for 0 <= k <= 8
U64Mask(k) == [i \in 1..64 |-> IF i > 64 - k THEN 1 ELSE 0]

\* the number a uint64 holds, for values below 2^31
U64Val(u) ==
    LET v[i \in 0..64] == IF i = 0 THEN 0 ELSE 2 * v[i - 1] + u[i]
    IN  v[64]

RECURSIVE cutBitsWhole(_, _, _, _)
\* the loop of cutBits over the whole bytes: in[start+i] for i = done .. wholeBytes-1
cutBitsWhole(in, res, from, count) ==
    IF count = 0 THEN res
    ELSE cutBitsWhole(in, U64Or(U64Shl(res, 8), U64(in[from + 1])), from + 1, count - 1)

\* cutBitsRest with the trailing bits taken from the low end of their byte
cutBitsRestLowEnd(in, offset, n, res, bitsRead) ==
    LET wholeBytes == (n - bitsRead) \div 8
        start == (offset + bitsRead) \div 8
        remaining == n - bitsRead - 8 * wholeBytes
    IN  IF remaining > 0
        THEN U64Or(U64Shl(cutBitsWhole(in, res, start, wholeBytes), remaining),
                   U64And(U64(in[start + wholeBytes + 1]), U64Mask(remaining)))
        ELSE cutBitsWhole(in, res, start, wholeBytes)

\* cutBits after the split byte: res holds bitsRead bits already
cutBitsRest(in, offset, n, res, bitsRead) ==
    LET wholeBytes == (n - bitsRead) \div 8
        start == (offset + bitsRead) \div 8
        remaining == n - bitsRead - 8 * wholeBytes
    IN  IF remaining > 0
        THEN U64Or(U64Shl(cutBitsWhole(in, res, start, wholeBytes), remaining),
                   U64Shr(U64(in[start + wholeBytes + 1]), 8 - remaining))
        ELSE cutBitsWhole(in, res, start, wholeBytes)

\* cutBits(in, offset, n): returns [err, val]
cutBits(in, offset, n) ==
    IF n > 64 THEN [err |-> "n exceeds maximum value of 64", val |-> U64Zero]
    ELSE IF Len(in) * 8 < offset + n THEN [err |-> "out of bounds read", val |-> U64Zero]
    ELSE IF offset % 8 > 0
    THEN IF n <= 8 - (offset % 8)
         THEN [err |-> "nil",
               val |-> U64Shr(U64And(U64(in[(offset \div 8) + 1]), U64Mask(8 - (offset % 8))),
                              (8 - (offset % 8)) - n)]
         ELSE [err |-> "nil",
               val |-> cutBitsRest(in, offset, n,
                          U64And(U64(in[(offset \div 8) + 1]), U64Mask(8 - (offset % 8))),
                          8 - (offset % 8))]
    ELSE [err |-> "nil", val |-> cutBitsRest(in, offset, n, U64Zero, 0)]

\* reference big-endian bit packing: the w bits of v (v < 2^31), most significant
\* first, and the bytes a bit string of whole bytes makes
BitsOf(v, w) == [i \in 1..w |-> IF w - i >= 31 THEN 0 ELSE (v \div (2 ^ (w - i))) % 2]

BytesOfBits(b) ==
    [k \in 1..(Len(b) \div 8) |->
        128 * b[8 * k - 7] + 64 * b[8 * k - 6] + 32 * b[8 * k - 5] + 16 * b[8 * k - 4]
        + 8 * b[8 * k - 3] + 4 * b[8 * k - 2] + 2 * b[8 * k - 1] + b[8 * k]]

----------------------------------------------------------------------------
(* RIFF/WAV chunk walker: ReadWAVMeta.                                     *)

NewMetadataWAV ==
    [sampleRate |-> 0, bitsPerSample |-> 0, channels |-> 0, dataSize |-> 0,
     duration |-> ZeroDur]

NoChunk == [p |-> -1, L |-> 0, id |-> <<>>]

\* error propagation of a parser step: if the read r failed, return its error
\* (with m and the cursor where it stopped), else continue with K(r)
Try(r, m, K(_)) ==
    IF r.err # "nil" THEN [err |-> r.err, m |-> m, pos |-> r.pos] ELSE K(r)

\* metadataWAV.readFmtChunk: returns [err, m, pos].  Each field of m is assigned
\* from its read before the error is looked at, so a failing read leaves 0 in
\* its field and the fields read before it keep their new values
readFmtChunk(s, pos, m, chunkSize) ==
    Try(readUint16LittleEndian(s, pos), m, LAMBDA audioFormat:
    LET channels == readUint16LittleEndian(s, audioFormat.pos)
        m1 == [m EXCEPT !.channels = channels.val]
    IN
    Try(channels, m1, LAMBDA c:
    LET sampleRate == readUint32LittleEndian(s, c.pos)
        m2 == [m1 EXCEPT !.sampleRate = sampleRate.val]
    IN
    Try(sampleRate, m2, LAMBDA sr:
    Try(SeekCurrent(sr.pos, 6), m2, LAMBDA skip:
    LET bitsPerSample == readUint16LittleEndian(s, skip.pos)
        m3 == [m2 EXCEPT !.bitsPerSample = bitsPerSample.val]
    IN
    Try(bitsPerSample, m3, LAMBDA bps:
    Try(IF chunkSize - 16 > 0 THEN SeekCurrent(bps.pos, chunkSize - 16)
        ELSE [err |-> "nil", pos |-> bps.pos], m3, LAMBDA rest:
      [err |-> IF audioFormat.val # 1 THEN "unsupported audio format" ELSE "nil",
       m   |-> m3,
       pos |-> rest.pos]))))))

\* wavDataChunk with the byte size of a sample rounded down instead of up
wavDataChunkRoundDown(m, chunkSize) ==
    LET bytesPerSample == m.bitsPerSample \div 8
        bytesPerSecond == m.sampleRate * m.channels * bytesPerSample
    IN  IF m.sampleRate > 0 /\ m.bitsPerSample > 0 /\ m.channels > 0 /\ bytesPerSecond > 0
        THEN [m EXCEPT !.dataSize = chunkSize,
                       !.duration = MulSecondDiv(chunkSize, bytesPerSecond)]
        ELSE [m EXCEPT !.dataSize = chunkSize]

\* the "data" case of ReadWAVMeta: record the size and compute the duration
\* (bytesPerSample is uint16 arithmetic)
wavDataChunk(m, chunkSize) ==
    LET bytesPerSample == ((m.bitsPerSample + 7) % 65536) \div 8
        bytesPerSecond == m.sampleRate * m.channels * bytesPerSample
    IN  IF m.sampleRate > 0 /\ m.bitsPerSample > 0 /\ m.channels > 0 /\ bytesPerSecond > 0
        THEN [m EXCEPT !.dataSize = chunkSize,
                       !.duration = MulSecondDiv(chunkSize, bytesPerSecond)]
        ELSE [m EXCEPT !.dataSize = chunkSize]

\* the switch on chunkID of ReadWAVMeta, the cursor at the chunk's payload
wavSwitch(s, pos, m, chunkID, chunkSize) ==
    IF chunkID = StrFmt THEN readFmtChunk(s, pos, m, chunkSize)
    ELSE IF chunkID = StrData
    THEN Try(SeekCurrent(pos, chunkSize), m, LAMBDA sk:
           [err |-> "nil", m |-> wavDataChunk(m, chunkSize), pos |-> sk.pos])
    ELSE Try(SeekCurrent(pos, chunkSize), m, LAMBDA sk:
           [err |-> "nil", m |-> m, pos |-> sk.pos])

\* wavAlign without the pad byte
wavAlignNoPad(r, chunkSize) == r

\* the word alignment that ends an iteration
wavAlign(r, chunkSize) ==
    IF chunkSize % 2 = 1
    THEN Try(SeekCurrent(r.pos, 1), r.m, LAMBDA sk: [r EXCEPT !.pos = sk.pos])
    ELSE r

\* one iteration of the chunk loop of ReadWAVMeta, the chunk id read:
\* returns [err, m, pos, brk, chunk]; brk is the break at end-of-stream
wavIteration(s, pos, m, chunkID) ==
    IF chunkID.err = "EOF"
    THEN [err |-> "nil", m |-> m, pos |-> chunkID.pos, brk |-> TRUE, chunk |-> NoChunk]
    ELSE Try(chunkID, m, LAMBDA id:
         Try(readUint32LittleEndian(s, id.pos), m, LAMBDA chunkSize:
         Try(wavSwitch(s, chunkSize.pos, m, id.val, chunkSize.val), m, LAMBDA body:
         Try(wavAlign(body, chunkSize.val), m, LAMBDA done:
           [err |-> "nil", m |-> done.m, pos |-> done.pos,
            chunk |-> [p |-> pos, L |-> chunkSize.val, id |-> id.val]]))))
         @@ [brk |-> FALSE, chunk |-> NoChunk]

wavLoopBody(s, pos, m) == wavIteration(s, pos, m, readString(s, pos, 4))

\* ReadWAVMeta up to the chunk loop: the RIFF and WAVE checks
\* returns [err, pos]
wavHeader(s, pos) ==
    Try(readString(s, pos, 4), <<>>, LAMBDA riff:
      IF riff.val # StrRIFF THEN [err |-> "not RIFF", pos |-> riff.pos]
      ELSE Try(SeekCurrent(riff.pos, 4), <<>>, LAMBDA skip:
           Try(readString(s, skip.pos, 4), <<>>, LAMBDA wave:
             IF wave.val # StrWAVE THEN [err |-> "not WAVE", pos |-> wave.pos]
             ELSE [err |-> "nil", pos |-> wave.pos])))

\* metadataWAV.FileType, Duration and Raw
wavFileType(m) == "WAV"
wavDuration(m) == m.duration
wavRaw(m) == [sample_rate |-> m.sampleRate, bits_per_sample |-> m.bitsPerSample,
              channels |-> m.channels, data_size |-> m.dataSize]

(* The streams ReadWAVMeta is run on. *)

MaxFrames == 3           \* sample frames in the data chunk
WavRates == {3, 8000, 44100}
WavChannels == {1, 2}
WavBits == {8, 12, 16, 24, 65535}
WavFmtLens == {14, 16, 17, 18}
WavFormats == {1, 3}
WavExtraLens == {-1, 0, 3}      \* -1: no chunk of that kind

\* a chunk: id, declared length L, the first L bytes of (body padded with zeros),
\* and the pad byte of an odd L
MkChunk(id, L, body) ==
    id \o LEBytes(L, 4) \o SubSeq(body \o Zeros(L), 1, L)
       \o (IF L % 2 = 1 THEN <<0>> ELSE <<>>)

\* bytesPerSample of createTestWAV: (bitsPerSample + 7) / 8 in uint16
\* arithmetic, the sum wrapping at 2^16
WavBytesPerSample(B) == ((B + 7) % 65536) \div 8

MkFmtBody(fmt, C, R, B) ==
    LEBytes(fmt, 2) \o LEBytes(C, 2) \o LEBytes(R, 4)
      \o LEBytes(R * C * WavBytesPerSample(B), 4)
      \o LEBytes(C * WavBytesPerSample(B), 2) \o LEBytes(B, 2)

\* createTestWAV of the tests, generalised: g gives the sample rate R, channels C,
\* bit depth B, frames N, the fmt chunk's declared length and audio format, a
\* chunk before and one after the data chunk (length -1: absent)
MkWAV(g) ==
    LET dataSize == g.N * g.C * WavBytesPerSample(g.B)
        chunks == MkChunk(StrFmt, g.fmtLen, MkFmtBody(g.fmt, g.C, g.R, g.B))
                  \o (IF g.pre >= 0 THEN MkChunk(StrLIST, g.pre, Fill(g.pre, 7)) ELSE <<>>)
                  \o StrData \o LEBytes(dataSize, 4) \o Zeros(dataSize)
                  \o (IF g.post >= 0
                      THEN (IF dataSize % 2 = 1 THEN <<0>> ELSE <<>>)
                           \o MkChunk(StrJunk, g.post, Fill(g.post, 9))
                      ELSE <<>>)
    IN  StrRIFF \o LEBytes(4 + Len(chunks), 4) \o StrWAVE \o chunks

WavGivens ==
    [R : WavRates, C : WavChannels, B : WavBits, N : 0..MaxFrames,
     fmtLen : WavFmtLens, fmt : WavFormats, pre : WavExtraLens, post : WavExtraLens]

\* a valid PCM stream as the tests build it: RIFF/WAVE, a 16-byte fmt chunk with
\* audio format 1, then the data chunk
WavValid(g) == g.fmtLen = 16 /\ g.fmt = 1 /\ g.pre = -1 /\ g.post = -1

WavIdle ==
    /\ wavStream = <<>> /\ wavPos = 0 /\ wavPc = "idle" /\ wavM = NewMetadataWAV
    /\ wavErr = "nil" /\ wavChunk = NoChunk /\ wavGiven = <<>>

WavInit ==
    /\ wavGiven \in WavGivens
    /\ wavStream = MkWAV(wavGiven)
    /\ wavPos = 0
    /\ wavPc = "riff"
    /\ wavM = NewMetadataWAV
    /\ wavErr = "nil"
    /\ wavChunk = NoChunk

\* ReadWAVMeta, lines 13-36
WavReadHeader ==
    /\ wavPc = "riff"
    /\ LET h == wavHeader(wavStream, wavPos)
       IN  /\ wavPos' = h.pos
           /\ wavErr' = h.err
           /\ wavPc' = IF h.err = "nil" THEN "chunks" ELSE "done"
    /\ UNCHANGED <<wavStream, wavM, wavChunk, wavGiven>>
    /\ UNCHANGED <<flacVars, oggVars, idVars, auxVars>>

\* ReadWAVMeta, one iteration of the loop of lines 39-89
WavReadChunk ==
    /\ wavPc = "chunks"
    /\ LET b == wavLoopBody(wavStream, wavPos, wavM)
       IN  /\ wavPos' = b.pos
           /\ wavErr' = b.err
           /\ wavM' = b.m
           /\ wavChunk' = IF b.brk THEN wavChunk ELSE b.chunk
           /\ wavPc' = IF b.brk \/ b.err # "nil" THEN "done" ELSE "chunks"
    /\ UNCHANGED <<wavStream, wavGiven>>
    /\ UNCHANGED <<flacVars, oggVars, idVars, auxVars>>


----------------------------------------------------------------------------
(* FLAC block chain walker: ReadFLACMeta.                                  *)

\* FLAC block types
streamInfoBlock == 0
vorbisCommentBlock == 4
pictureBlock == 6

NewMetadataFLAC == [duration |-> ZeroDur]

\* io.Reader.Read of bytes.Reader into a buffer of n bytes: at end-of-stream
\* io.EOF, else the bytes that are left, at most n (the rest of the buffer stays 0)
readOnce(s, pos, n) ==
    IF pos >= Len(s) THEN [err |-> "EOF", val |-> Zeros(n), pos |-> pos]
    ELSE [err |-> "nil",
          val |-> SubSeq(s, pos + 1, Min(pos + n, Len(s))) \o Zeros(Max(0, pos + n - Len(s))),
          pos |-> Min(pos + n, Len(s))]

\* the division of readStreamingInfoBlock: an integer division by zero panics
flacDivide(m, sampleNum, sampleRate, pos) ==
    IF sampleRate = 0
    THEN [err |-> "panic: integer divide by zero", m |-> m, pos |-> pos]
    ELSE [err |-> "nil", m |-> [m EXCEPT !.duration = SecondMulDiv(sampleNum, sampleRate)],
          pos |-> pos]

\* metadataFLAC.readStreamingInfoBlock: returns [err, m, pos]
readStreamingInfoBlock(s, pos, m, len) ==
    Try(readOnce(s, pos, len), m, LAMBDA data:
    Try(cutBits(data.val, 80, 20) @@ [pos |-> data.pos], m, LAMBDA sampleRate:
    Try(cutBits(data.val, 108, 36) @@ [pos |-> data.pos], m, LAMBDA sampleNum:
      flacDivide(m, U64Val(sampleNum.val), U64Val(sampleRate.val), data.pos))))

RECURSIVE vorbisComments(_, _, _)
\* the n comments of a Vorbis comment header from the cursor on, each a 32-bit
\* little-endian length and a string of that length
vorbisComments(s, pos, n) ==
    IF n = 0 THEN [err |-> "nil", pos |-> pos]
    ELSE LET l == readUint32LittleEndian(s, pos)
             cmt == readString(s, l.pos, l.val)
         IN  IF l.err # "nil" THEN [err |-> l.err, pos |-> l.pos]
             ELSE IF cmt.err # "nil" THEN [err |-> cmt.err, pos |-> cmt.pos]
             ELSE vorbisComments(s, cmt.pos, n - 1)

\* metadataVorbis.readVorbisComment on the reader itself: it is handed no
\* length and reads what the Vorbis comment header frames, the vendor string
\* and the comments, each with its own length; the strings' contents are not
\* looked at here
readVorbisComment(s, pos, m) ==
    Try(readUint32LittleEndian(s, pos), m, LAMBDA vendorLen:
    Try(readString(s, vendorLen.pos, vendorLen.val), m, LAMBDA vendor:
    Try(readUint32LittleEndian(s, vendor.pos), m, LAMBDA commentsLen:
      vorbisComments(s, commentsLen.pos, commentsLen.val) @@ [m |-> m])))

\* metadataFLAC.readPictureBlock on the reader itself: it is handed no length
\* and reads what the picture block frames: the picture type, the MIME type
\* and the description with their lengths, width, height, colour depth and
\* colour count, and the picture data with its length (all 32-bit big-endian)
readPictureBlock(s, pos, m) ==
    Try(readInt(s, pos, 4), m, LAMBDA pictureType:
    Try(readInt(s, pictureType.pos, 4), m, LAMBDA mimeLen:
    Try(readString(s, mimeLen.pos, mimeLen.val), m, LAMBDA mime:
    Try(readInt(s, mime.pos, 4), m, LAMBDA descLen:
    Try(readString(s, descLen.pos, descLen.val), m, LAMBDA desc:
    Try(readInt(s, desc.pos, 4), m, LAMBDA width:
    Try(readInt(s, width.pos, 4), m, LAMBDA height:
    Try(readInt(s, height.pos, 4), m, LAMBDA depth:
    Try(readInt(s, depth.pos, 4), m, LAMBDA colours:
    Try(readInt(s, colours.pos, 4), m, LAMBDA dataLen:
    Try(readBytes(s, dataLen.pos, dataLen.val), m, LAMBDA data:
      [err |-> "nil", m |-> m, pos |-> data.pos])))))))))))

\* the switch on the block type of readFLACBlock, the cursor at the payload:
\* blockLen goes to the stream-info reader and to the seek only
flacSwitch(s, pos, m, type, blockLen) ==
    IF type = vorbisCommentBlock THEN readVorbisComment(s, pos, m)
    ELSE IF type = pictureBlock THEN readPictureBlock(s, pos, m)
    ELSE IF type = streamInfoBlock THEN readStreamingInfoBlock(s, pos, m, blockLen)
    ELSE Try(SeekCurrent(pos, blockLen), m, LAMBDA sk:
           [err |-> "nil", m |-> m, pos |-> sk.pos])

\* the last-block flag and the block type of a header byte
flacLast(b) == getBit(b, 7)
flacType(b) == IF getBit(b, 7) THEN b - 128 ELSE b

\* metadataFLAC.readFLACBlock: returns [err, m, pos, last, hdr]; hdr is the block
\* header read (<<>> when none was read whole).  The named result last is set
\* from the header byte before the length is read, so it is returned also when
\* the read of the length fails
readFLACBlock(s, pos, m) ==
    Try(readBytes(s, pos, 1), m, LAMBDA blockHeader:
      Try(readInt(s, blockHeader.pos, 3), m, LAMBDA blockLen:
        flacSwitch(s, blockLen.pos, m, flacType(blockHeader.val[1]), blockLen.val)
        @@ [hdr |-> <<[start |-> pos, type |-> flacType(blockHeader.val[1]),
                       len |-> blockLen.val, last |-> flacLast(blockHeader.val[1])]>>])
      @@ [last |-> flacLast(blockHeader.val[1]), hdr |-> <<>>])
    @@ [last |-> FALSE, hdr |-> <<>>]

\* ReadFLACMeta up to the block loop: the magic
flacMagic(s, pos) ==
    Try(readString(s, pos, 4), <<>>, LAMBDA flac:
      IF flac.val # StrFLaC THEN [err |-> "expected 'fLaC'", pos |-> flac.pos]
      ELSE [err |-> "nil", pos |-> flac.pos])

\* metadataFLAC.FileType and Duration
flacFileType(m) == "FLAC"
flacDuration(m) == Dur(1, 0)

(* The streams ReadFLACMeta is run on: "fLaC", a chain of blocks, audio;   *)
(* whole, or cut short.                                                    *)

MaxBlocks == 3           \* metadata blocks in a stream

\* stream-info payload: 34 bytes, the sample rate in bits 80..99 and the sample
\* count in bits 108..143
MkStreamInfo(rate, samples) ==
    Zeros(10)
    \o BytesOfBits(BitsOf(rate, 20) \o BitsOf(1, 3) \o BitsOf(15, 5) \o BitsOf(samples, 36))
    \o Zeros(16)

\* the kinds of block: type and payload
\* (sample rate, sample count) of the stream-info blocks
FlacRates == {<<0, 5>>, <<2, 7>>, <<44100, 88200>>}

\* the kinds of block: the type, the payload and, for a whole stream-info block,
\* the sample rate and count it was packed from (-1 otherwise)
FlacKinds ==
    { [type |-> 0, payload |-> MkStreamInfo(r[1], r[2]), rate |-> r[1], samples |-> r[2]] :
        r \in FlacRates }
    \cup
    { [type |-> 0, payload |-> Zeros(17), rate |-> -1, samples |-> -1],
      [type |-> 1, payload |-> Zeros(3), rate |-> -1, samples |-> -1],
      [type |-> 2, payload |-> <<>>, rate |-> -1, samples |-> -1],
      [type |-> 4, payload |-> Zeros(8), rate |-> -1, samples |-> -1],
      [type |-> 6, payload |-> Zeros(32), rate |-> -1, samples |-> -1] }

FlacChains ==
    UNION { [1..n -> {k @@ [last |-> l] : k \in FlacKinds, l \in BOOLEAN}] :
              n \in 1..MaxBlocks }

MkBlock(b) ==
    <<b.type + (IF b.last THEN 128 ELSE 0)>> \o BEBytes(Len(b.payload), 3) \o b.payload

\* the first bytes of an audio frame follow the metadata
FlacAudio == <<255, 248, 201, 8>>

MkFLAC(chain) == StrFLaC \o Flatten([i \in 1..Len(chain) |-> MkBlock(chain[i])]) \o FlacAudio

RECURSIVE FlacOffset(_, _)
\* where block i of the chain starts in the stream
FlacOffset(chain, i) ==
    IF i = 1 THEN 4 ELSE FlacOffset(chain, i - 1) + 4 + Len(chain[i - 1].payload)

\* the number of bytes missing at the end of a stream: none, or the audio and
\* the last 14 bytes of the metadata
FlacCuts == {0, 18}

FlacInit ==
    /\ flacGiven \in FlacChains
    /\ flacStream \in {SubSeq(MkFLAC(flacGiven), 1, Len(MkFLAC(flacGiven)) - c) : c \in FlacCuts}
    /\ flacPos = 0
    /\ flacPc = "magic"
    /\ flacM = NewMetadataFLAC
    /\ flacErr = "nil"
    /\ flacWalk = <<>>

\* ReadFLACMeta, lines 123-133
FlacReadMagic ==
    /\ flacPc = "magic"
    /\ LET h == flacMagic(flacStream, flacPos)
       IN  /\ flacPos' = h.pos
           /\ flacErr' = h.err
           /\ flacPc' = IF h.err = "nil" THEN "blocks" ELSE "done"
    /\ UNCHANGED <<flacStream, flacM, flacWalk, flacGiven>>
    /\ UNCHANGED <<wavVars, oggVars, idVars, auxVars>>

\* ReadFLACMeta, one iteration of the loop of lines 135-144
FlacReadBlock ==
    /\ flacPc = "blocks"
    /\ LET b == readFLACBlock(flacStream, flacPos, flacM)
       IN  /\ flacPos' = b.pos
           /\ flacErr' = b.err
           /\ flacM' = b.m
           /\ flacWalk' = flacWalk \o b.hdr
           /\ flacPc' = IF b.err # "nil" \/ b.last THEN "done" ELSE "blocks"
    /\ UNCHANGED <<flacStream, flacGiven>>
    /\ UNCHANGED <<wavVars, oggVars, idVars, auxVars>>

----------------------------------------------------------------------------
(* Format identifier: Identify, and setWavOffset.                          *)

\* setWavOffset: returns [err, pos]
setWavOffset(s, pos) ==
    Try(readString(s, pos, 4), <<>>, LAMBDA riff:
      IF riff.val # StrRIFF THEN [err |-> "not RIFF", pos |-> riff.pos]
      ELSE
    Try(SeekCurrent(riff.pos, 4), <<>>, LAMBDA skip:
    Try(readString(s, skip.pos, 4), <<>>, LAMBDA wave:
      IF wave.val # StrWAVE THEN [err |-> "not WAVE", pos |-> wave.pos]
      ELSE
    Try(SeekCurrent(wave.pos, 24), <<>>, LAMBDA fmt:
    Try(readString(s, fmt.pos, 4), <<>>, LAMBDA data:
      IF data.val # StrData THEN [err |-> "not data", pos |-> data.pos]
      ELSE
    Try(readUint32LittleEndian(s, data.pos), <<>>, LAMBDA dataSize:
    Try(SeekCurrent(dataSize.pos, dataSize.val), <<>>, LAMBDA audio:
    Try(SeekCurrent(audio.pos, 8), <<>>, LAMBDA hdr:
      [err |-> "nil", pos |-> hdr.pos]))))))))

\* setWavOffset as part_000 has it: the 8 bytes after the payload are skipped
\* only when they start with 'id3'
setWavOffsetId3(s, pos) ==
    Try(readString(s, pos, 4), <<>>, LAMBDA riff:
      IF riff.val # StrRIFF THEN [err |-> "not RIFF", pos |-> riff.pos]
      ELSE
    Try(SeekCurrent(riff.pos, 4), <<>>, LAMBDA skip:
    Try(readString(s, skip.pos, 4), <<>>, LAMBDA wave:
      IF wave.val # StrWAVE THEN [err |-> "not WAVE", pos |-> wave.pos]
      ELSE
    Try(SeekCurrent(wave.pos, 24), <<>>, LAMBDA fmt:
    Try(readString(s, fmt.pos, 4), <<>>, LAMBDA data:
      IF data.val # StrData THEN [err |-> "not data", pos |-> data.pos]
      ELSE
    Try(readUint32LittleEndian(s, data.pos), <<>>, LAMBDA dataSize:
    Try(SeekCurrent(dataSize.pos, dataSize.val), <<>>, LAMBDA audio:
    Try(readString(s, audio.pos, 3), <<>>, LAMBDA str:
      IF str.val = StrId3
      THEN Try(SeekCurrent(str.pos - 3, 8), <<>>, LAMBDA hdr:
             [err |-> "nil", pos |-> hdr.pos])
      ELSE [err |-> "nil", pos |-> str.pos - 3]))))))))

IdResult(format, fileType, err) == [format |-> format, fileType |-> fileType, err |-> err]

\* the sub-type of an MP4 stream, from bytes 8..10
idMP4Type(b) ==
    IF b = StrM4A THEN "M4A"
    ELSE IF b = StrM4B THEN "M4B"
    ELSE IF b = StrM4P THEN "M4P"
    ELSE "UnknownFileType"

\* the ID3v2 version, from byte 3
idID3(v) ==
    IF v = 2 THEN IdResult("ID3v2_2", "MP3", "nil")
    ELSE IF v = 3 THEN IdResult("ID3v2_3", "MP3", "nil")
    ELSE IF v = 4 THEN IdResult("ID3v2_4", "MP3", "nil")
    ELSE IdResult("UnknownFormat", "UnknownFileType", "ID3 version")

\* idSwitch with the ID3 case tried before the ftyp case
idSwitchID3First(b) ==
    IF SubSeq(b, 1, 4) = StrFLaC THEN [to |-> "done", res |-> IdResult("VORBIS", "FLAC", "nil")]
    ELSE IF SubSeq(b, 1, 4) = StrOggS
    THEN [to |-> "done", res |-> IdResult("VORBIS", "OGG", "nil")]
    ELSE IF SubSeq(b, 1, 3) = StrID3 THEN [to |-> "done", res |-> idID3(b[4])]
    ELSE IF SubSeq(b, 5, 8) = StrFtyp
    THEN [to |-> "done", res |-> IdResult("MP4", idMP4Type(SubSeq(b, 9, 11)), "nil")]
    ELSE IF SubSeq(b, 1, 4) = StrRIFF /\ SubSeq(b, 9, 12) = StrWAVE
    THEN [to |-> "wav", res |-> IdResult("UnknownFormat", "UnknownFileType", "nil")]
    ELSE [to |-> "fallback", res |-> IdResult("UnknownFormat", "UnknownFileType", "nil")]

\* the switch of Identify on the 12 bytes peeked: the result returned, or the
\* branch taken ("wav": RIFF/WAVE, "fallback": no case matched)
idSwitch(b) ==
    IF SubSeq(b, 1, 4) = StrFLaC THEN [to |-> "done", res |-> IdResult("VORBIS", "FLAC", "nil")]
    ELSE IF SubSeq(b, 1, 4) = StrOggS
    THEN [to |-> "done", res |-> IdResult("VORBIS", "OGG", "nil")]
    ELSE IF SubSeq(b, 5, 8) = StrFtyp
    THEN [to |-> "done", res |-> IdResult("MP4", idMP4Type(SubSeq(b, 9, 11)), "nil")]
    ELSE IF SubSeq(b, 1, 3) = StrID3 THEN [to |-> "done", res |-> idID3(b[4])]
    ELSE IF SubSeq(b, 1, 4) = StrRIFF /\ SubSeq(b, 9, 12) = StrWAVE
    THEN [to |-> "wav", res |-> IdResult("UnknownFormat", "UnknownFileType", "nil")]
    ELSE [to |-> "fallback", res |-> IdResult("UnknownFormat", "UnknownFileType", "nil")]

\* idPeekSwitch without the seek back over the 12 bytes
idPeekSwitchNoSeek(s, pos) ==
    Try(readBytes(s, pos, 12), <<>>, LAMBDA b:
      idSwitch(b.val) @@ [err |-> "nil", pos |-> b.pos])

\* Identify, lines 10-59: the peek and the switch; returns [to, res, pos]
idPeekSwitch(s, pos) ==
    Try(readBytes(s, pos, 12), <<>>, LAMBDA b:
    Try(SeekCurrent(b.pos, -12), <<>>, LAMBDA back:
      idSwitch(b.val) @@ [err |-> "nil", pos |-> back.pos]))

\* idFallback looking 125 bytes before the end
idFallbackOff(s, pos) ==
    Try(SeekEnd(s, pos, -125), <<>>, LAMBDA n:
    Try(readString(s, n.pos, 3), <<>>, LAMBDA tag:
    Try(SeekCurrent(tag.pos, -n.pos), <<>>, LAMBDA back:
      [err |-> IF tag.val # StrTAG THEN "ErrNoTagsFound" ELSE "nil", pos |-> back.pos])))

\* Identify, lines 71-90: the ID3v1 fallback; returns [err, pos]
idFallback(s, pos) ==
    Try(SeekEnd(s, pos, -128), <<>>, LAMBDA n:
    Try(readString(s, n.pos, 3), <<>>, LAMBDA tag:
    Try(SeekCurrent(tag.pos, -n.pos), <<>>, LAMBDA back:
      [err |-> IF tag.val # StrTAG THEN "ErrNoTagsFound" ELSE "nil", pos |-> back.pos])))

\* idReturn keeping the file type the nested call found
idReturnNested(res, depth) == res

\* what the outermost call returns when the innermost returns res: every
\* enclosing call that took the RIFF/WAVE branch replaces the file type by WAV
idReturn(res, depth) == IF depth > 0 THEN [res EXCEPT !.fileType = "WAV"] ELSE res

(* The streams Identify is run on. *)

MaxWrap == 1             \* RIFF/WAVE wrappers around a stream

IdHeads ==
    { h0 \o h1 \o h2 :
        h0 \in {StrFLaC, StrOggS, StrRIFF, StrJunk, StrTAG \o <<0>>}
               \cup {StrID3 \o <<v>> : v \in {0, 2, 3, 4, 5}},
        h1 \in {StrFtyp, StrJunk},
        h2 \in {StrM4A \o <<32>>, StrM4B \o <<32>>, StrM4P \o <<32>>, StrIsom, StrWAVE} }

\* what follows the 12 bytes: nothing; 88 bytes; 116 bytes (128 in all, the first
\* three of the stream are then the ones 128 before the end); 128 bytes that
\* begin with "TAG"; 128 bytes that do not
IdTails ==
    { <<>>, Zeros(88), Zeros(116), StrTAG \o Zeros(125), Zeros(128) }

IdBase == { h \o t : h \in IdHeads, t \in IdTails }

\* what a RIFF/WAVE wrapper holds after the 8 bytes that follow its audio
IdInner ==
    { <<>>, Zeros(5) }
    \cup { h \o t : h \in { StrID3 \o <<3>> \o Zeros(8), StrID3 \o <<1>> \o Zeros(8),
                            StrFLaC \o Zeros(8), StrJunk \o StrFtyp \o StrM4A \o <<32>>,
                            Zeros(12) },
                    t \in { <<>>, StrTAG \o Zeros(125), Zeros(128) } }

\* a WAV stream: RIFF/WAVE, a fmt chunk of declared length fmtLen, a data chunk
\* of dataLen bytes, 8 bytes of a further chunk header whose id begins with
\* tag ('ID3' or 'id3'), then inner
IdWrap(fmtLen, dataLen, tag, inner) ==
    StrRIFF \o Zeros(4) \o StrWAVE
    \o MkChunk(StrFmt, fmtLen, MkFmtBody(1, 2, 44100, 16))
    \o StrData \o LEBytes(dataLen, 4) \o Fill(dataLen, 1)
    \o tag \o <<32>> \o Zeros(4) \o inner

RECURSIVE IdWrapped(_)
IdWrapped(d) ==
    IF d = 0 THEN IdInner
    ELSE { IdWrap(f, n, g, i) : f \in {16, 18}, n \in {0, 3}, g \in {StrID3, StrId3},
                                i \in IdWrapped(d - 1) }

IdStreams == IdBase \cup UNION { IdWrapped(d) : d \in 1..MaxWrap }

IdInit ==
    /\ idStream \in IdStreams
    /\ idPos = 0
    /\ idEntry = 0
    /\ idPc = "peek"
    /\ idDepth = 0
    /\ idRes = IdResult("UnknownFormat", "UnknownFileType", "nil")

\* Identify, lines 10-59: peek 12 bytes, seek back, and the cases that return
IdentifyPeek ==
    /\ idPc = "peek"
    /\ LET r == idPeekSwitch(idStream, idPos)
       IN  /\ idPos' = r.pos
           /\ IF r.err # "nil"
              THEN /\ idPc' = "done"
                   /\ idRes' = idReturn(IdResult("UnknownFormat", "UnknownFileType", r.err),
                                        idDepth)
              ELSE /\ idPc' = r.to
                   /\ idRes' = IF r.to = "done" THEN idReturn(r.res, idDepth) ELSE idRes
    /\ UNCHANGED <<idStream, idDepth, idEntry>>
    /\ UNCHANGED <<wavVars, flacVars, oggVars, auxVars>>

\* Identify, lines 60-68: the RIFF/WAVE case; the call of line 67 starts at "peek".
\* src/ holds two texts of setWavOffset (wav.go and part_000): the call of
\* line 61 is to the one the build has
IdentifyWav ==
    /\ idPc = "wav"
    /\ \E r \in {setWavOffset(idStream, idPos), setWavOffsetId3(idStream, idPos)} :
           /\ idPos' = r.pos
           /\ IF r.err # "nil"
              THEN /\ idPc' = "done"
                   /\ idRes' = IdResult("UnknownFormat", "WAV", r.err)
                   /\ UNCHANGED <<idDepth, idEntry>>
              ELSE /\ idPc' = "peek"
                   /\ idDepth' = idDepth + 1
                   /\ idEntry' = r.pos
                   /\ UNCHANGED idRes
    /\ UNCHANGED idStream
    /\ UNCHANGED <<wavVars, flacVars, oggVars, auxVars>>

\* Identify, lines 71-90: the ID3v1 fallback
IdentifyFallback ==
    /\ idPc = "fallback"
    /\ LET r == idFallback(idStream, idPos)
       IN  /\ idPos' = r.pos
           /\ idRes' = idReturn(IF r.err = "nil" THEN IdResult("ID3v1", "MP3", "nil")
                                ELSE IdResult("UnknownFormat", "UnknownFileType", r.err),
                                idDepth)
    /\ idPc' = "done"
    /\ UNCHANGED <<idStream, idDepth, idEntry>>
    /\ UNCHANGED <<wavVars, flacVars, oggVars, auxVars>>

----------------------------------------------------------------------------
(* oggDemuxer.Read (src/id.go).  A uint32 checksum is kept as its 4 bytes, *)
(* most significant first.                                                 *)

RECURSIVE XorBits(_, _, _)
\* the exclusive or of the low n bits of a and b
XorBits(a, b, n) ==
    IF n = 0 THEN 0 ELSE ((a + b) % 2) + 2 * XorBits(a \div 2, b \div 2, n - 1)

\* ^ on bytes
XorTab == [a \in 0..255 |-> [b \in 0..255 |-> XorBits(a, b, 8)]]

\* ^ on uint32
Xor32(a, b) == <<XorTab[a[1]][b[1]], XorTab[a[2]][b[2]], XorTab[a[3]][b[3]], XorTab[a[4]][b[4]]>>

\* crc << 1 on uint32
Shl32(c) ==
    <<((2 * c[1]) % 256) + (c[2] \div 128), ((2 * c[2]) % 256) + (c[3] \div 128),
      ((2 * c[3]) % 256) + (c[4] \div 128), (2 * c[4]) % 256>>

RECURSIVE oggCRCTableEntry(_, _, _)
\* oggCRCTable, lines 243-251: the inner loop from step j on
oggCRCTableEntry(crc, poly, j) ==
    IF j = 8 THEN crc
    ELSE oggCRCTableEntry(IF crc[1] >= 128 THEN Xor32(Shl32(crc), poly) ELSE Shl32(crc),
                          poly, j + 1)

oggCRCTable(poly) == [i \in 0..255 |-> oggCRCTableEntry(<<i, 0, 0, 0>>, poly, 0)]

oggCRC32Poly04c11db7 == oggCRCTable(<<4, 193, 29, 183>>)

\* (crc << 8) ^ t
oggCRCStep(crc, t) ==
    <<XorTab[crc[2]][t[1]], XorTab[crc[3]][t[2]], XorTab[crc[4]][t[3]], t[4]>>

RECURSIVE oggCRCRange(_, _, _, _, _)
\* oggCRCUpdate, lines 258-260: the loop over the bytes lo..hi of p, as the
\* loop over the first half followed by the loop over the second half (crc, a
\* uint32 of 4 bytes, is evaluated on entry)
oggCRCRange(crc, tab, p, lo, hi) ==
    IF Len(crc) # 4 \/ lo > hi THEN crc
    ELSE IF lo = hi THEN oggCRCStep(crc, tab[XorTab[crc[1]][p[lo]]])
    ELSE oggCRCRange(oggCRCRange(crc, tab, p, lo, (lo + hi) \div 2), tab, p,
                     ((lo + hi) \div 2) + 1, hi)

RECURSIVE oggCRCRangeNoFeedback(_, _, _, _, _)
oggCRCRangeNoFeedback(crc, tab, p, lo, hi) ==
    IF Len(crc) # 4 \/ lo > hi THEN crc
    ELSE IF lo = hi THEN oggCRCStep(crc, tab[p[lo]])
    ELSE oggCRCRangeNoFeedback(oggCRCRangeNoFeedback(crc, tab, p, lo, (lo + hi) \div 2),
                               tab, p, ((lo + hi) \div 2) + 1, hi)

\* oggCRCUpdate with the table indexed by the data byte alone
oggCRCUpdateNoFeedback(crc, tab, p) == oggCRCRangeNoFeedback(crc, tab, p, 1, Len(p))

oggCRCUpdate(crc, tab, p) == oggCRCRange(crc, tab, p, 1, Len(p))

\* io.ReadFull of n bytes from offset pos of s
oggReadFull(s, pos, n) ==
    IF n = 0 THEN [err |-> "nil", val |-> <<>>, pos |-> pos]
    ELSE IF pos >= Len(s) THEN [err |-> "EOF", val |-> <<>>, pos |-> pos]
    ELSE IF pos + n > Len(s) THEN [err |-> "ErrUnexpectedEOF", val |-> <<>>, pos |-> Len(s)]
    ELSE [err |-> "nil", val |-> SubSeq(s, pos + 1, pos + n), pos |-> pos + n]

RECURSIVE oggLE(_)
\* a little-endian unsigned integer
oggLE(b) == IF b = <<>> THEN 0 ELSE Head(b) + 256 * oggLE(Tail(b))

RECURSIVE oggSum(_)
\* segmentsSize, lines 297-300
oggSum(t) == IF t = <<>> THEN 0 ELSE Head(t) + oggSum(Tail(t))

\* the fields of oggPageHeader in the 27 header bytes
oggFlags(hb)   == hb[6]
\* int(oh.GranulePosition): the 64 bits as a two's complement number
oggGranule(hb) ==
    IF hb[14] >= 128 THEN -(oggLE([i \in 1..8 |-> 255 - hb[6 + i]])) - 1
    ELSE oggLE(SubSeq(hb, 7, 14))
oggSerial(hb)  == oggLE(SubSeq(hb, 15, 18))
oggCRCField(hb) == <<hb[26], hb[25], hb[24], hb[23]>>

\* what Read returns, and packetBufs after it
OggResult(err, packets, pos, bufs) ==
    [err |-> err, packets |-> packets, pos |-> pos, bufs |-> bufs]

OggTry(r, bufs, K(_)) ==
    IF r.err # "nil" THEN OggResult(r.err, <<>>, 0, bufs) ELSE K(r)

RECURSIVE oggWalkNoReset(_, _, _, _, _, _)
\* oggWalk keeping the buffer after a packet has been emitted
oggWalkNoReset(buf, table, data, i, p, packets) ==
    IF i > Len(table) THEN [buf |-> buf, packets |-> packets]
    ELSE IF table[i] < 255
    THEN oggWalkNoReset(buf \o SubSeq(data, p + 1, p + table[i]), table, data, i + 1,
                        p + table[i], Append(packets, buf \o SubSeq(data, p + 1, p + table[i])))
    ELSE oggWalkNoReset(buf \o SubSeq(data, p + 1, p + table[i]), table, data, i + 1,
                        p + table[i], packets)

RECURSIVE oggWalk(_, _, _, _, _, _)
\* Read, lines 335-344: the loop over the segment table from entry i on, p bytes
\* of the data consumed
oggWalk(buf, table, data, i, p, packets) ==
    IF i > Len(table) THEN [buf |-> buf, packets |-> packets]
    ELSE IF table[i] < 255
    THEN oggWalk(<<>>, table, data, i + 1, p + table[i],
                 Append(packets, buf \o SubSeq(data, p + 1, p + table[i])))
    ELSE oggWalk(buf \o SubSeq(data, p + 1, p + table[i]), table, data, i + 1,
                 p + table[i], packets)

\* Read, lines 346-348
oggStore(bufs, serial, w, pos) ==
    OggResult("nil", w.packets, pos,
              [bufs EXCEPT ![serial] = [ok |-> TRUE, buf |-> w.buf]])

\* oggDeliver starting a fresh buffer on a continued page without one
oggDeliverFresh(bufs, hb, table, data) ==
    oggStore(bufs, oggSerial(hb),
             oggWalk(IF oggFlags(hb) % 2 = 1 /\ bufs[oggSerial(hb)].ok
                     THEN bufs[oggSerial(hb)].buf ELSE <<>>, table, data, 1, 0, <<>>),
             oggGranule(hb))

\* Read, lines 319-348: the page has passed the checksum
oggDeliver(bufs, hb, table, data) ==
    IF oggFlags(hb) % 2 = 1 /\ ~bufs[oggSerial(hb)].ok
    THEN OggResult("could not find continued packet", <<>>, 0, bufs)
    ELSE oggStore(bufs, oggSerial(hb),
                  oggWalk(IF oggFlags(hb) % 2 = 1 THEN bufs[oggSerial(hb)].buf ELSE <<>>,
                          table, data, 1, 0, <<>>),
                  oggGranule(hb))

\* Read, lines 306-317
oggChecked(bufs, hb, table, data) ==
    IF oggCRCUpdate(oggCRCUpdate(oggCRCUpdate(<<0, 0, 0, 0>>, oggCRC32Poly04c11db7,
                                              [i \in 1..27 |-> IF i \in 23..26 THEN 0 ELSE hb[i]]),
                                 oggCRC32Poly04c11db7, table),
                    oggCRC32Poly04c11db7, data) # oggCRCField(hb)
    THEN OggResult("crc", <<>>, 0, bufs)
    ELSE oggDeliver(bufs, hb, table, data)

\* oggDemuxer.Read on a reader holding the bytes s
oggRead(bufs, s) ==
    OggTry(oggReadFull(s, 0, 27), bufs, LAMBDA h:
      IF SubSeq(h.val, 1, 4) # StrOggS THEN OggResult("expected 'OggS'", <<>>, 0, bufs)
      ELSE OggTry(oggReadFull(s, h.pos, h.val[27]), bufs, LAMBDA st:
           OggTry(oggReadFull(s, st.pos, oggSum(st.val)), bufs, LAMBDA sd:
             oggChecked(bufs, h.val, st.val, sd.val))))

(* The pages a session reads, as a conforming writer produces them: the    *)
(* checksum is computed bit by bit, most significant bit first, with       *)
(* polynomial 0x04c11db7 and initial value 0.                              *)

MaxPages == 3            \* Read calls in a session

OggPolyBits == BitsOf(79764919, 32)

RECURSIVE OggWriterByte(_, _, _)
\* the checksum register (32 bits) after the bits k-1..0 of byte v
OggWriterByte(reg, v, k) ==
    IF k = 0 THEN reg
    ELSE OggWriterByte(SubSeq([i \in 1..32 |->
                                 ((IF i < 32 THEN reg[i + 1] ELSE 0)
                                  + ((reg[1] + (v \div (2 ^ (k - 1)))) % 2) * OggPolyBits[i]) % 2],
                              1, 32),
                       v, k - 1)

RECURSIVE OggWriterRange(_, _, _, _)
\* the checksum register after the bytes lo..hi of p
OggWriterRange(reg, p, lo, hi) ==
    IF Len(reg) # 32 \/ lo > hi THEN reg
    ELSE IF lo = hi THEN OggWriterByte(reg, p[lo], 8)
    ELSE OggWriterRange(OggWriterRange(reg, p, lo, (lo + hi) \div 2), p,
                        ((lo + hi) \div 2) + 1, hi)

\* the checksum of the bytes p, as 4 bytes, most significant first
OggWriterCRC(p) == BytesOfBits(OggWriterRange([i \in 1..32 |-> 0], p, 1, Len(p)))

OggSerials == {258, 66000}

\* the lacing values of the pages
OggTables == << <<255>>, <<2, 0>>, <<1, 255>> >>

\* a page with its checksum field zero
OggBlank(serial, flags, granule, seqno, table, data) ==
    StrOggS \o <<0, flags>> \o LEBytes(granule, 8) \o LEBytes(serial, 4)
            \o LEBytes(seqno, 4) \o <<0, 0, 0, 0>> \o <<Len(table)>> \o table \o data

\* the bytes of a page
OggSeal(blank, crc) ==
    [i \in 1..Len(blank) |-> IF i \in 23..26 THEN crc[27 - i] ELSE blank[i]]

RECURSIVE OggSplit(_, _, _, _)
\* the segments of a page: data cut by the lacing values
OggSplit(table, data, i, p) ==
    IF i > Len(table) THEN <<>>
    ELSE <<SubSeq(data, p + 1, p + table[i])>> \o OggSplit(table, data, i + 1, p + table[i])

\* page number n of the menu
OggMkPage(n) ==
    [serial |-> IF n % 2 = 1 THEN 258 ELSE 66000,
     continued |-> ((n - 1) \div 2) % 2 = 1,
     granule |-> 100 * n,
     segs |-> OggSplit(OggTables[((n - 1) \div 4) + 1],
                       [k \in 1..oggSum(OggTables[((n - 1) \div 4) + 1]) |-> (7 * k + 29 * n) % 256],
                       1, 0),
     bytes |-> OggSeal(OggBlank(IF n % 2 = 1 THEN 258 ELSE 66000, ((n - 1) \div 2) % 2,
                                100 * n, n, OggTables[((n - 1) \div 4) + 1],
                                [k \in 1..oggSum(OggTables[((n - 1) \div 4) + 1]) |-> (7 * k + 29 * n) % 256]),
                       OggWriterCRC(OggBlank(IF n % 2 = 1 THEN 258 ELSE 66000, ((n - 1) \div 2) % 2,
                                100 * n, n, OggTables[((n - 1) \div 4) + 1],
                                [k \in 1..oggSum(OggTables[((n - 1) \div 4) + 1]) |-> (7 * k + 29 * n) % 256])))]

OggMenu == [n \in 1..(4 * Len(OggTables)) |-> OggMkPage(n)]

\* the masks and positions of the payload byte a damaged page has changed
OggMasks == {1, 255}
OggDamageAt(pg) == {1, oggSum([j \in 1..Len(pg.segs) |-> Len(pg.segs[j])])} \ {0}

\* the page with payload byte k changed by mask
OggDamage(pg, k, mask) ==
    [i \in 1..Len(pg.bytes) |->
        IF i = 27 + Len(pg.segs) + k THEN XorTab[pg.bytes[i]][mask] ELSE pg.bytes[i]]

\* readers that do not hold a whole page
OggMalformed(pg) ==
    [empty |-> <<>>, header |-> SubSeq(pg.bytes, 1, 10),
     body |-> SubSeq(pg.bytes, 1, Len(pg.bytes) - 1),
     magic |-> <<111>> \o Tail(pg.bytes)]

RECURSIVE OggTruthWalk(_, _, _, _)
\* the segments since the last packet boundary, and the packets completed, after
\* the segments i.. of a page
OggTruthWalk(pend, segs, i, packets) ==
    IF i > Len(segs) THEN [pend |-> pend, packets |-> packets]
    ELSE IF Len(segs[i]) < 255
    THEN OggTruthWalk(<<>>, segs, i + 1, Append(packets, Flatten(Append(pend, segs[i]))))
    ELSE OggTruthWalk(Append(pend, segs[i]), segs, i + 1, packets)

OggNoInput == [kind |-> "none", n |-> 0]

OggInit ==
    /\ oggBufs = [s \in OggSerials |-> [ok |-> FALSE, buf |-> <<>>]]
    /\ oggRes = [err |-> "nil", packets |-> <<>>, pos |-> 0, in |-> OggNoInput]
    /\ oggTruth = [pend |-> [s \in OggSerials |-> <<>>], log |-> <<>>, pre |-> TRUE]
    /\ oggCalls = 0

\* the ghost state after a page has been read with result r
OggTruthAfter(pg, r) ==
    IF r.err # "nil" THEN oggTruth
    ELSE [pend |-> [oggTruth.pend EXCEPT
                      ![pg.serial] = OggTruthWalk(oggTruth.pend[pg.serial], pg.segs, 1, <<>>).pend],
          log |-> Append(oggTruth.log, pg.serial),
          pre |-> oggTruth.pre /\ (oggTruth.pend[pg.serial] # <<>> => pg.continued)]

\* what a Read call leaves in oggRes
OggReturned(r, in) == [err |-> r.err, packets |-> r.packets, pos |-> r.pos, in |-> in]

\* Read on a page of a conforming writer.  As in ReadOGGMeta (lines 363-376), no
\* further page is read once a call has failed.
OggReadPage ==
    /\ oggCalls < MaxPages /\ oggRes.err = "nil"
    /\ \E n \in DOMAIN OggMenu :
         LET r == oggRead(oggBufs, OggMenu[n].bytes)
         IN  /\ oggBufs' = r.bufs
             /\ oggRes' = OggReturned(r, [kind |-> "page", n |-> n])
             /\ oggTruth' = OggTruthAfter(OggMenu[n], r)
    /\ oggCalls' = oggCalls + 1
    /\ UNCHANGED <<wavVars, flacVars, idVars, auxVars>>

\* Read on a page one payload byte of which has been changed
OggReadDamaged ==
    /\ oggCalls < MaxPages /\ oggRes.err = "nil"
    /\ \E n \in DOMAIN OggMenu : \E k \in OggDamageAt(OggMenu[n]) : \E mask \in OggMasks :
         LET r == oggRead(oggBufs, OggDamage(OggMenu[n], k, mask))
         IN  /\ oggBufs' = r.bufs
             /\ oggRes' = OggReturned(r, [kind |-> "damaged", n |-> n])
             /\ oggTruth' = OggTruthAfter(OggMenu[n], r)
    /\ oggCalls' = oggCalls + 1
    /\ UNCHANGED <<wavVars, flacVars, idVars, auxVars>>

\* Read on a reader that ends early or does not start with the magic
OggReadMalformed ==
    /\ oggCalls < MaxPages /\ oggRes.err = "nil"
    /\ \E n \in DOMAIN OggMenu : \E kind \in DOMAIN OggMalformed(OggMenu[n]) :
         LET r == oggRead(oggBufs, OggMalformed(OggMenu[n])[kind])
         IN  /\ oggBufs' = r.bufs
             /\ oggRes' = OggReturned(r, [kind |-> kind, n |-> n])
             /\ oggTruth' = OggTruthAfter(OggMenu[n], r)
    /\ oggCalls' = oggCalls + 1
    /\ UNCHANGED <<wavVars, flacVars, idVars, auxVars>>

----------------------------------------------------------------------------
(* Natural numbers of any size, for the float64 arithmetic of              *)
(* getMP3Duration: limbs of 13 bits, least significant first, no leading   *)
(* zero limb (zero is the empty sequence).                                 *)

BigBase == 2 ^ 13

RECURSIVE BigCarry(_, _, _)
\* carries propagated over column sums, each below 2^30
BigCarry(cols, i, carry) ==
    IF i > Len(cols)
    THEN IF carry = 0 THEN <<>>
         ELSE <<carry % BigBase>> \o BigCarry(cols, i, carry \div BigBase)
    ELSE <<(cols[i] + carry) % BigBase>>
         \o BigCarry(cols, i + 1, (cols[i] + carry) \div BigBase)

RECURSIVE BigTrim(_)
BigTrim(a) ==
    IF a # <<>> /\ a[Len(a)] = 0 THEN BigTrim(SubSeq(a, 1, Len(a) - 1)) ELSE a

BigNorm(cols) == BigTrim(BigCarry(cols, 1, 0))

\* n >= 0 as a big number, and back (for values below 2^31)
BigOf(n) == BigNorm(<<n>>)

BigVal(a) ==
    LET v[i \in 0..Len(a)] == IF i = 0 THEN 0 ELSE v[i - 1] * BigBase + a[Len(a) + 1 - i]
    IN  v[Len(a)]

RECURSIVE BigColumn(_, _, _, _)
\* sum of a[i] * b[k + 1 - i] over the i from lo on
BigColumn(a, b, k, i) ==
    IF i > Len(a) \/ i > k THEN 0
    ELSE (IF k + 1 - i <= Len(b) THEN a[i] * b[k + 1 - i] ELSE 0) + BigColumn(a, b, k, i + 1)

BigMul(a, b) ==
    IF a = <<>> \/ b = <<>> THEN <<>>
    ELSE BigNorm([k \in 1..(Len(a) + Len(b) - 1) |-> BigColumn(a, b, k, 1)])

\* a * 2^k and floor(a / 2^k)
BigShl(a, k) ==
    IF a = <<>> THEN <<>>
    ELSE Zeros(k \div 13) \o BigNorm([i \in 1..Len(a) |-> a[i] * (2 ^ (k % 13))])

\* quotient and remainder of a by d, 0 < d <= 2^17
BigDivMod(a, d) ==
    LET r[i \in 1..(Len(a) + 1)] ==
            IF i = Len(a) + 1 THEN 0 ELSE (r[i + 1] * BigBase + a[i]) % d
    IN  [q |-> BigTrim([i \in 1..Len(a) |-> (r[i + 1] * BigBase + a[i]) \div d]),
         r |-> r[1]]

BigShr(a, k) ==
    IF k \div 13 >= Len(a) THEN <<>>
    ELSE BigDivMod(SubSeq(a, (k \div 13) + 1, Len(a)), 2 ^ (k % 13)).q

BigBitLen(a) ==
    IF a = <<>> THEN 0
    ELSE 13 * (Len(a) - 1)
         + (CHOOSE n \in 1..13 : 2 ^ (n - 1) <= a[Len(a)] /\ a[Len(a)] < 2 ^ n)

BigOdd(a) == a # <<>> /\ a[1] % 2 = 1

BigInc(a) == IF a = <<>> THEN <<1>> ELSE BigNorm([a EXCEPT ![1] = @ + 1])

----------------------------------------------------------------------------
(* float64: a non-negative finite value is [m, e], standing for m * 2^e    *)
(* with m below 2^53.  Every operation rounds its exact result to 53       *)
(* significant bits, ties to even, as the hardware does.                   *)

F64Precision == 53

\* n * 2^e (plus a non-zero fraction below one unit of n when sticky) rounded
F64Round(n, e, sticky) ==
    IF BigBitLen(n) <= F64Precision THEN [m |-> n, e |-> e]
    ELSE LET sh == BigBitLen(n) - F64Precision
             top == BigShr(n, sh - 1)
             m0 == BigShr(top, 1)
             lower == sticky \/ BigShl(top, sh - 1) # n
             up == BigOdd(top) /\ (lower \/ BigOdd(m0))
         IN  [m |-> IF up THEN BigInc(m0) ELSE m0, e |-> e + sh]

\* float64(n) for 0 <= n < 2^31
F64Of(n) == [m |-> BigOf(n), e |-> 0]

\* x * y
F64Mul(x, y) == F64Round(BigMul(x.m, y.m), x.e + y.e, FALSE)

\* x / float64(d) for an integer 0 < d <= 2^17: the quotient is taken with 72
\* more bits than x, so that it has a bit to round on
F64Quo(x, d) ==
    LET qr == BigDivMod(BigShl(x.m, 72), d)
    IN  F64Round(qr.q, x.e - 72, qr.r # 0)

\* math.Floor(x) and math.Round(x) (halves away from zero) as integers
F64Floor(x) ==
    IF x.e >= 0 THEN BigVal(BigShl(x.m, x.e)) ELSE BigVal(BigShr(x.m, -x.e))

F64RoundHalfAway(x) ==
    IF x.e >= 0 THEN BigVal(BigShl(x.m, x.e))
    ELSE BigVal(BigShr(x.m, -x.e))
         + (IF BigOdd(BigShr(x.m, (-x.e) - 1)) THEN 1 ELSE 0)

----------------------------------------------------------------------------
(* MPEG frame header tables and getMP3Duration.  Go's tables are indexed   *)
(* from 0, the sequences here from 1.                                      *)

mpeg25 == 0
mpegReserved == 1
mpeg2 == 2
mpeg1 == 3

layerReserved == 0
layer3 == 1
layer2 == 2
layer1 == 3

bitrates ==
    << << Zeros(15),
          <<0, 8, 16, 24, 32, 40, 48, 56, 64, 80, 96, 112, 128, 144, 160>>,
          <<0, 8, 16, 24, 32, 40, 48, 56, 64, 80, 96, 112, 128, 144, 160>>,
          <<0, 32, 48, 56, 64, 80, 96, 112, 128, 144, 160, 176, 192, 224, 256>> >>,
       << Zeros(15), Zeros(15), Zeros(15), Zeros(15) >>,
       << Zeros(15),
          <<0, 8, 16, 24, 32, 40, 48, 56, 64, 80, 96, 112, 128, 144, 160>>,
          <<0, 8, 16, 24, 32, 40, 48, 56, 64, 80, 96, 112, 128, 144, 160>>,
          <<0, 32, 48, 56, 64, 80, 96, 112, 128, 144, 160, 176, 192, 224, 256>> >>,
       << Zeros(15),
          <<0, 32, 40, 48, 56, 64, 80, 96, 112, 128, 160, 192, 224, 256, 320>>,
          <<0, 32, 48, 56, 64, 80, 96, 112, 128, 160, 192, 224, 256, 320, 384>>,
          <<0, 32, 64, 96, 128, 160, 192, 224, 256, 288, 320, 352, 384, 416, 448>> >> >>

sampleRates ==
    << <<11025, 12000, 8000>>,
       <<0, 0, 0>>,
       <<22050, 24000, 16000>>,
       <<44100, 48000, 32000>> >>

samplesPerFrame ==
    << <<0, 576, 1152, 384>>,
       <<0, 0, 0, 0>>,
       <<0, 576, 1152, 384>>,
       <<0, 1152, 1152, 384>> >>

slotSize == <<0, 1, 1, 4>>

Mp3Result(err, dur, nan) == [err |-> err, dur |-> dur, nan |-> nan]

\* the six header fields: [err, version, layer, protection, bitrateIndex,
\* samplerateIndex, padding]
mp3Fields(header) ==
    LET version == cutBits(header, 11, 2)
        layer == cutBits(header, 13, 2)
        protection == cutBits(header, 15, 1)
        bitrateIndex == cutBits(header, 16, 4)
        samplerateIndex == cutBits(header, 20, 2)
        padding == cutBits(header, 21, 1)
        F(e) == [err |-> e, version |-> U64Val(version.val), layer |-> U64Val(layer.val),
                 protection |-> U64Val(protection.val),
                 bitrateIndex |-> U64Val(bitrateIndex.val),
                 samplerateIndex |-> U64Val(samplerateIndex.val),
                 padding |-> U64Val(padding.val)]
    IN  IF version.err # "nil" THEN F("reading mpeg version")
        ELSE IF layer.err # "nil" THEN F("reading mpeg layer")
        ELSE IF protection.err # "nil" THEN F("reading mpeg protection")
        ELSE IF bitrateIndex.err # "nil" THEN F("reading mpeg bitrate index")
        ELSE IF samplerateIndex.err # "nil" THEN F("reading mpeg samplerate index")
        ELSE IF padding.err # "nil" THEN F("reading mpeg padding bit")
        ELSE F("nil")

\* frameDuration := float64(frameSampleNum) / float64(sampleRates[..][..])
mp3FrameDuration(f) ==
    F64Quo(F64Of(samplesPerFrame[f.version + 1][f.layer + 1]),
           sampleRates[f.version + 1][f.samplerateIndex + 1])

\* math.Floor(((frameDuration * float64(bitrate)) * 1000) / 8)
mp3FrameSizeFloor(f) ==
    F64Floor(F64Quo(F64Mul(F64Mul(mp3FrameDuration(f),
                                  F64Of(bitrates[f.version + 1][f.layer + 1][f.bitrateIndex + 1])),
                           F64Of(1000)),
                    8))

\* the header length added last
mp3HeaderLen == 4

mp3FrameSize(f) ==
    mp3FrameSizeFloor(f)
    + (IF f.padding = 1 THEN slotSize[f.layer + 1] ELSE 0)
    + (IF f.protection = 1 THEN 2 ELSE 0)
    + mp3HeaderLen

\* math.Round((float64(strippedSize) / float64(frameSize)) * frameDuration),
\* for strippedSize >= 0
mp3Seconds(f, strippedSize) ==
    F64RoundHalfAway(F64Mul(F64Quo(F64Of(strippedSize), mp3FrameSize(f)),
                            mp3FrameDuration(f)))

\* getMP3Duration(header, strippedSize).  The arithmetic is sign-symmetric, so
\* a negative strippedSize gives the negated result of its magnitude.  A
\* reserved version divides 0.0 by 0.0: every later value is NaN and the
\* conversion of NaN to time.Duration is implementation-dependent (nan).
getMP3Duration(header, strippedSize) ==
    LET f == mp3Fields(header)
    IN  IF f.err # "nil" THEN Mp3Result(f.err, ZeroDur, FALSE)
        ELSE IF f.samplerateIndex + 1 > Len(sampleRates[f.version + 1])
        THEN Mp3Result("panic: index out of range", ZeroDur, FALSE)
        ELSE IF f.bitrateIndex + 1 > Len(bitrates[f.version + 1][f.layer + 1])
        THEN Mp3Result("panic: index out of range", ZeroDur, FALSE)
        ELSE IF sampleRates[f.version + 1][f.samplerateIndex + 1] = 0
        THEN Mp3Result("nil", ZeroDur, TRUE)
        ELSE Mp3Result("nil",
                       Dur((IF strippedSize < 0 THEN -1 ELSE 1) * mp3Seconds(f, Abs(strippedSize)), 0),
                       FALSE)

\* Headers: the frame sync, every value of the second byte and every value of
\* the six bits of the third byte that getMP3Duration reads.
Mp3SecondBytes == 224..255
Mp3ThirdBytes == {4 * k : k \in 0..63}
Mp3Headers == {<<255, b, c, 0>> : b \in Mp3SecondBytes, c \in Mp3ThirdBytes}

\* stripped sizes: none, 750 and 1535 bytes, 100 frames of 421 bytes
Mp3Sizes == {0, 750, 1535, 42100}

\* what an implementation may make of time.Second * time.Duration(NaN)
Mp3NaNDurations == {ZeroDur, Dur(1, 0)}

Mp3Init ==
    /\ mp3Header \in Mp3Headers
    /\ mp3Size \in Mp3Sizes
    /\ mp3Pc = "call"
    /\ mp3Res = <<>>

Mp3GetDuration ==
    /\ mp3Pc = "call"
    /\ LET r == getMP3Duration(mp3Header, mp3Size)
       IN  \E d \in (IF r.nan THEN Mp3NaNDurations ELSE {r.dur}) :
               mp3Res' = [r EXCEPT !.dur = d]
    /\ mp3Pc' = "done"
    /\ UNCHANGED <<mp3Header, mp3Size>>
    /\ UNCHANGED <<wavVars, flacVars, oggVars, idVars, bitsVars, offVars, dsfVars, metaVars>>

----------------------------------------------------------------------------
(* cutBits on packed buffers.  A reference packer writes a bit string into *)
(* a background of equal bytes, most significant bit first.                *)

\* bit i (0-based, most significant first) of a byte buffer
BufBit(in, i) == (in[(i \div 8) + 1] \div (2 ^ (7 - (i % 8)))) % 2

\* the uint64 whose low bits are the bit string b (Len(b) <= 64)
U64OfBits(b) == [i \in 1..64 |-> IF i > 64 - Len(b) THEN b[i - (64 - Len(b))] ELSE 0]

\* len bytes, all equal to bg, with the bit string b written at bit offset
PackBits(len, bg, offset, b) ==
    BytesOfBits([k \in 1..(8 * len) |->
        IF k > offset /\ k <= offset + Len(b) THEN b[k - offset]
        ELSE (bg \div (2 ^ (7 - ((k - 1) % 8)))) % 2])

MaxBitOffset == 17
MaxBitWidth == 66

BitLens == {0, 1, 9, 11}
BitBackgrounds == {0, 255}

\* bit patterns of width w: all ones, both ends set, alternating from 1
BitPattern(p, w) ==
    [i \in 1..w |->
        CASE p = "ones" -> 1
          [] p = "ends" -> IF i = 1 \/ i = w THEN 1 ELSE 0
          [] OTHER -> i % 2]
BitPatterns == {"ones", "ends", "alt"}

BitsFit(len, offset, n) == n <= 64 /\ offset + n <= 8 * len

BitsInit ==
    /\ bitsOffset \in 0..MaxBitOffset
    /\ bitsN \in 0..MaxBitWidth
    /\ \E len \in BitLens, bg \in BitBackgrounds, p \in BitPatterns :
           IF BitsFit(len, bitsOffset, bitsN)
           THEN /\ bitsPacked = BitPattern(p, bitsN)
                /\ bitsIn = PackBits(len, bg, bitsOffset, bitsPacked)
           ELSE /\ bitsPacked = <<>>
                /\ bitsIn = Fill(len, bg)
    /\ bitsPc = "call"
    /\ bitsRes = <<>>

CutBitsCall ==
    /\ bitsPc = "call"
    /\ bitsRes' = cutBits(bitsIn, bitsOffset, bitsN)
    /\ bitsPc' = "done"
    /\ UNCHANGED <<bitsIn, bitsOffset, bitsN, bitsPacked>>
    /\ UNCHANGED <<wavVars, flacVars, oggVars, idVars, mp3Vars, offVars, dsfVars, metaVars>>

----------------------------------------------------------------------------
(* setWavOffset on RIFF/WAVE streams that hold a data chunk.  The          *)
(* repository carries two texts of the function (wav.go and part_000); a   *)
(* build has one of them.                                                  *)

OffBuilds == {"wav.go", "part_000"}
OffFmtLens == {14, 16, 18}
OffTails == {"none", "id3", "JUNK"}

OffGivens ==
    [fmtLen : OffFmtLens, pre : WavExtraLens, N : 0..MaxFrames, tail : OffTails]

\* the chunks up to and including the audio payload: 8-bit mono samples
OffHead(g) ==
    MkChunk(StrFmt, g.fmtLen, MkFmtBody(1, 1, 8000, 8))
    \o (IF g.pre >= 0 THEN MkChunk(StrLIST, g.pre, Fill(g.pre, 7)) ELSE <<>>)
    \o StrData \o LEBytes(g.N, 4) \o Fill(g.N, 128)

\* what follows the payload: nothing, an 'id3 ' chunk holding an ID3v2.3
\* header, or a JUNK chunk after the pad byte of an odd payload
OffTail(g) ==
    CASE g.tail = "id3" -> MkChunk(StrId3 \o <<32>>, 10, StrID3 \o <<3, 0, 0, 0, 0, 0, 0>>)
      [] g.tail = "JUNK" -> (IF g.N % 2 = 1 THEN <<0>> ELSE <<>>) \o MkChunk(StrJunk, 4, Fill(4, 9))
      [] OTHER -> <<>>

MkOffWAV(g) ==
    StrRIFF \o LEBytes(4 + Len(OffHead(g)) + Len(OffTail(g)), 4) \o StrWAVE
            \o OffHead(g) \o OffTail(g)

\* offset of the first byte after the audio payload
OffPayloadEnd(g) == 12 + Len(OffHead(g))

OffInit ==
    /\ offGiven \in OffGivens
    /\ offBuild \in OffBuilds
    /\ offStream = MkOffWAV(offGiven)
    /\ offPos = 0
    /\ offPc = "call"
    /\ offErr = "nil"

\* setWavOffset as wav.go has it
SetWavOffset ==
    /\ offPc = "call" /\ offBuild = "wav.go"
    /\ LET r == setWavOffset(offStream, offPos)
       IN  offPos' = r.pos /\ offErr' = r.err
    /\ offPc' = "done"
    /\ UNCHANGED <<offStream, offGiven, offBuild>>
    /\ UNCHANGED <<wavVars, flacVars, oggVars, idVars, mp3Vars, bitsVars, dsfVars, metaVars>>

\* setWavOffset as part_000 has it
SetWavOffsetId3 ==
    /\ offPc = "call" /\ offBuild = "part_000"
    /\ LET r == setWavOffsetId3(offStream, offPos)
       IN  offPos' = r.pos /\ offErr' = r.err
    /\ offPc' = "done"
    /\ UNCHANGED <<offStream, offGiven, offBuild>>
    /\ UNCHANGED <<wavVars, flacVars, oggVars, idVars, mp3Vars, bitsVars, dsfVars, metaVars>>

----------------------------------------------------------------------------
(* DSF header reader: ReadDSFMeta up to the call of the ID3v2 decoder.     *)

StrDSD == <<68, 83, 68, 32>>

\* readUint64LittleEndian, for values below 2^31
readUint64LittleEndian(s, pos) ==
    LET r == readBytes(s, pos, 8)
    IN  IF r.err # "nil" THEN [r EXCEPT !.val = 0]
        ELSE [r EXCEPT !.val = oggLE(r.val)]

DsfResult(err, duration, pos) == [err |-> err, duration |-> duration, pos |-> pos]

\* time.Second * (time.Duration(sampleNum) / time.Duration(sampleRate)), then
\* the seek to the tag: Go's integer division panics on a zero divisor
dsfDivide(sampleNum, sampleRate, id3Pointer, pos) ==
    IF sampleRate = 0
    THEN DsfResult("panic: integer divide by zero", ZeroDur, pos)
    ELSE DsfResult("nil", SecondMulDiv(sampleNum, sampleRate), id3Pointer)

\* ReadDSFMeta, lines 16-60: returns [err, duration, pos]
readDSFHeader(s, pos) ==
    Try(readString(s, pos, 4), <<>>, LAMBDA dsd:
      IF dsd.val # StrDSD THEN [err |-> "expected 'DSD '", pos |-> dsd.pos]
      ELSE
    Try(SeekCurrent(dsd.pos, 16), <<>>, LAMBDA skip1:
    Try(readUint64LittleEndian(s, skip1.pos), <<>>, LAMBDA id3Pointer:
    Try(SeekCurrent(id3Pointer.pos, 28), <<>>, LAMBDA skip2:
    Try(readUint32LittleEndian(s, skip2.pos), <<>>, LAMBDA sampleRate:
    Try(SeekCurrent(sampleRate.pos, 4), <<>>, LAMBDA skip3:
    Try(readUint64LittleEndian(s, skip3.pos), <<>>, LAMBDA sampleNum:
      dsfDivide(sampleNum.val, sampleRate.val, id3Pointer.val, sampleNum.pos))))))))
    @@ [duration |-> ZeroDur]

DsfRates == {0, 1, 44100, 2822400}
DsfSamples == {0, 7, 5644800}
DsfPointers == {0, 80, 200}
DsfCuts == {0, 2, 10, 30, 58, 66, 72, 90}

\* a DSF stream: the DSD chunk (28 bytes), the fmt chunk up to the sample
\* count (44 bytes), 8 bytes more, and an ID3v2 header at offset 80
MkDSF(g) ==
    g.magic \o LEBytes(28, 8) \o LEBytes(90, 8) \o LEBytes(g.pointer, 8)
    \o <<102, 109, 116, 32>> \o LEBytes(52, 8) \o LEBytes(1, 4) \o LEBytes(0, 4)
    \o LEBytes(2, 4) \o LEBytes(2, 4) \o LEBytes(g.rate, 4) \o LEBytes(1, 4)
    \o LEBytes(g.samples, 8) \o Zeros(8)
    \o StrID3 \o <<3, 0, 0, 0, 0, 0, 0>>

DsfGivens ==
    [magic : {StrDSD, StrRIFF}, pointer : DsfPointers, rate : DsfRates,
     samples : DsfSamples, len : DsfCuts]

DsfInit ==
    /\ dsfGiven \in DsfGivens
    /\ dsfStream = SubSeq(MkDSF(dsfGiven), 1, dsfGiven.len)
    /\ dsfPos = 0
    /\ dsfPc = "call"
    /\ dsfErr = "nil"
    /\ dsfDuration = ZeroDur

\* ReadDSFMeta up to the seek to the tag; the ID3v2 decoder runs from "tags"
DsfReadHeader ==
    /\ dsfPc = "call"
    /\ LET r == readDSFHeader(dsfStream, dsfPos)
       IN  /\ dsfPos' = r.pos
           /\ dsfErr' = r.err
           /\ dsfDuration' = r.duration
           /\ dsfPc' = IF r.err = "nil" THEN "tags" ELSE "done"
    /\ UNCHANGED <<dsfStream, dsfGiven>>
    /\ UNCHANGED <<wavVars, flacVars, oggVars, idVars, mp3Vars, bitsVars, offVars, metaVars>>

----------------------------------------------------------------------------
(* ReadOGGMeta: the loop over the pages of a stream.                       *)

vorbisIdentificationPrefix == <<1, 118, 111, 114, 98, 105, 115>>
vorbisCommentPrefix == <<3, 118, 111, 114, 98, 105, 115>>
opusTagsPrefix == <<79, 112, 117, 115, 84, 97, 103, 115>>

HasPrefix(b, p) == Len(b) >= Len(p) /\ SubSeq(b, 1, Len(p)) = p

NewMetadataOGG == [sampleRate |-> 0, duration |-> ZeroDur]

\* metadataOGG.readVorbisIdentification on the packet b from offset pos:
\* returns [err, m]; the sample rate is assigned before the error is looked at
readVorbisIdentification(b, pos, m) ==
    LET skip == SeekCurrent(pos, 5)
        rate == readUint32LittleEndian(b, skip.pos)
    IN  IF skip.err # "nil" THEN [err |-> skip.err, m |-> m]
        ELSE [err |-> rate.err, m |-> [m EXCEPT !.sampleRate = rate.val]]

\* the switch of lines 380-390 on one packet: returns [err, m, ext], ext being
\* metaExtracted
oggPacket(b, m, ext) ==
    IF HasPrefix(b, vorbisCommentPrefix)
    THEN [err |-> readVorbisComment(SubSeq(b, Len(vorbisCommentPrefix) + 1, Len(b)),
                                    0, m).err,
          m |-> m, ext |-> TRUE]
    ELSE IF HasPrefix(b, opusTagsPrefix)
    THEN [err |-> readVorbisComment(SubSeq(b, Len(opusTagsPrefix) + 1, Len(b)),
                                    0, m).err,
          m |-> [m EXCEPT !.sampleRate = 48000], ext |-> TRUE]
    ELSE IF HasPrefix(b, vorbisIdentificationPrefix)
    THEN readVorbisIdentification(b, Len(vorbisIdentificationPrefix), m) @@ [ext |-> ext]
    ELSE [err |-> "nil", m |-> m, ext |-> ext]

RECURSIVE oggPackets(_, _, _, _)
\* the loop of lines 379-394 from packet i on: it returns at the first error
oggPackets(bs, i, m, ext) ==
    IF i > Len(bs) THEN [err |-> "nil", m |-> m, ext |-> ext]
    ELSE IF oggPacket(bs[i], m, ext).err # "nil" THEN oggPacket(bs[i], m, ext)
    ELSE oggPackets(bs, i + 1, oggPacket(bs[i], m, ext).m, oggPacket(bs[i], m, ext).ext)

\* oggEndOfStream with the granule position divided by the rate only after the
\* multiplication by time.Second
oggEndOfStreamFine(m, ext, prevPos) ==
    IF ~ext THEN [err |-> "ErrNoTagsFound", m |-> m]
    ELSE IF m.sampleRate > 0
    THEN [err |-> "nil", m |-> [m EXCEPT !.duration = MulSecondDiv(prevPos, m.sampleRate)]]
    ELSE [err |-> "nil", m |-> m]

\* lines 368-376: Read has returned io.EOF
oggEndOfStream(m, ext, prevPos) ==
    IF ~ext THEN [err |-> "ErrNoTagsFound", m |-> m]
    ELSE IF m.sampleRate > 0
    THEN [err |-> "nil", m |-> [m EXCEPT !.duration = SecondMulDiv(prevPos, m.sampleRate)]]
    ELSE [err |-> "nil", m |-> m]

\* the bytes a Read has taken from the reader s when it returns: each
\* io.ReadFull takes what it asked for or, of a short reader, all that is
\* left; nothing more is read once the capture pattern has failed
oggPageLen(s) ==
    IF Len(s) < 27 THEN Len(s)
    ELSE IF SubSeq(s, 1, 4) # StrOggS THEN 27
    ELSE IF Len(s) < 27 + s[27] THEN Len(s)
    ELSE Min(Len(s), 27 + s[27] + oggSum(SubSeq(s, 28, 27 + s[27])))

MaxMetaPages == 3

\* one page holding one packet
MetaMkPage(kind, rate, granule, packet) ==
    [kind |-> kind, rate |-> rate, granule |-> granule,
     bytes |-> OggSeal(OggBlank(258, 0, granule, 0, <<Len(packet)>>, packet),
                       OggWriterCRC(OggBlank(258, 0, granule, 0, <<Len(packet)>>, packet)))]

MetaIdent(rate) ==
    vorbisIdentificationPrefix \o LEBytes(0, 4) \o <<2>> \o LEBytes(rate, 4) \o Zeros(4)

\* identification packets (44100 Hz, 0 Hz, cut short), a Vorbis comment packet,
\* an OpusTags packet, and audio pages of four granule positions, the last
\* with all 64 bits set (-1: no packet ends on the page)
MetaMenu ==
    << MetaMkPage("ident", 44100, 0, MetaIdent(44100)),
       MetaMkPage("ident", 0, 0, MetaIdent(0)),
       MetaMkPage("short", 0, 0, vorbisIdentificationPrefix \o <<0, 0, 0>>),
       MetaMkPage("comment", -1, 0, vorbisCommentPrefix \o LEBytes(0, 4) \o LEBytes(0, 4)),
       MetaMkPage("opus", 48000, 0, opusTagsPrefix \o LEBytes(0, 4) \o LEBytes(0, 4)),
       MetaMkPage("audio", -1, 88200, <<7, 7, 7>>),
       MetaMkPage("audio", -1, 47999, <<7, 7, 7>>),
       MetaMkPage("audio", -1, 100000, <<7, 7, 7>>),
       MetaMkPage("audio", -1, -1, <<7, 7, 7>>) >>

\* how the stream ends: with its last page whole, with the last page's header
\* and segment table only, or one byte short
MetaEnds == {"whole", "table", "short"}

MetaGivens ==
    UNION { [pages : [1..n -> DOMAIN MetaMenu], end : MetaEnds] : n \in 1..MaxMetaPages }

MetaStream(g) ==
    LET all == Flatten([i \in 1..Len(g.pages) |-> MetaMenu[g.pages[i]].bytes])
    IN  CASE g.end = "table" -> SubSeq(all, 1, Len(all) - Len(MetaMenu[g.pages[Len(g.pages)]].bytes) + 28)
          [] g.end = "short" -> SubSeq(all, 1, Len(all) - 1)
          [] OTHER -> all

MetaInit ==
    /\ metaGiven \in MetaGivens
    /\ metaRest = MetaStream(metaGiven)
    /\ metaBufs = [s \in OggSerials |-> [ok |-> FALSE, buf |-> <<>>]]
    /\ metaExtracted = FALSE
    /\ metaM = NewMetadataOGG
    /\ metaPrevPos = 0
    /\ metaPc = "loop"
    /\ metaErr = "nil"

\* one turn of the loop of ReadOGGMeta in which Read returns a page
MetaReadPage ==
    /\ metaPc = "loop"
    /\ LET r == oggRead(metaBufs, metaRest)
       IN  /\ r.err = "nil"
           /\ metaBufs' = r.bufs
           /\ metaPrevPos' = r.pos
           /\ LET p == oggPackets(r.packets, 1, metaM, metaExtracted)
              IN  /\ metaM' = p.m
                  /\ metaExtracted' = p.ext
                  /\ metaErr' = p.err
                  /\ metaPc' = IF p.err = "nil" THEN "loop" ELSE "done"
    /\ metaRest' = SubSeq(metaRest, oggPageLen(metaRest) + 1, Len(metaRest))
    /\ UNCHANGED metaGiven
    /\ UNCHANGED <<wavVars, flacVars, oggVars, idVars, mp3Vars, bitsVars, offVars, dsfVars>>

\* the turn in which Read returns io.EOF
MetaReadEOF ==
    /\ metaPc = "loop"
    /\ oggRead(metaBufs, metaRest).err = "EOF"
    /\ LET e == oggEndOfStream(metaM, metaExtracted, metaPrevPos)
       IN  metaM' = e.m /\ metaErr' = e.err
    /\ metaPc' = "done"
    /\ metaRest' = SubSeq(metaRest, oggPageLen(metaRest) + 1, Len(metaRest))
    /\ UNCHANGED <<metaBufs, metaExtracted, metaPrevPos, metaGiven>>
    /\ UNCHANGED <<wavVars, flacVars, oggVars, idVars, mp3Vars, bitsVars, offVars, dsfVars>>

\* the turn in which Read returns another error
MetaReadError ==
    /\ metaPc = "loop"
    /\ oggRead(metaBufs, metaRest).err \notin {"nil", "EOF"}
    /\ metaErr' = oggRead(metaBufs, metaRest).err
    /\ metaPc' = "done"
    /\ metaRest' = SubSeq(metaRest, oggPageLen(metaRest) + 1, Len(metaRest))
    /\ UNCHANGED <<metaBufs, metaExtracted, metaM, metaPrevPos, metaGiven>>
    /\ UNCHANGED <<wavVars, flacVars, oggVars, idVars, mp3Vars, bitsVars, offVars, dsfVars>>

----------------------------------------------------------------------------
(* Idle values of the other parsers' variables.                            *)

FlacIdle ==
    /\ flacStream = <<>> /\ flacPos = 0 /\ flacPc = "idle" /\ flacM = NewMetadataFLAC
    /\ flacErr = "nil" /\ flacWalk = <<>> /\ flacGiven = <<>>

OggIdle == OggInit

IdIdle ==
    /\ idStream = <<>> /\ idPos = 0 /\ idPc = "idle" /\ idDepth = 0
    /\ idRes = <<>> /\ idEntry = 0

Mp3Idle == mp3Header = <<>> /\ mp3Size = 0 /\ mp3Pc = "idle" /\ mp3Res = <<>>

BitsIdle ==
    /\ bitsIn = <<>> /\ bitsOffset = 0 /\ bitsN = 0 /\ bitsPacked = <<>>
    /\ bitsPc = "idle" /\ bitsRes = <<>>

OffIdle ==
    /\ offStream = <<>> /\ offPos = 0 /\ offPc = "idle" /\ offErr = "nil"
    /\ offGiven = <<>> /\ offBuild = "none"

DsfIdle ==
    /\ dsfStream = <<>> /\ dsfPos = 0 /\ dsfPc = "idle" /\ dsfErr = "nil"
    /\ dsfDuration = ZeroDur /\ dsfGiven = <<>>

MetaIdle ==
    /\ metaRest = <<>> /\ metaBufs = <<>> /\ metaExtracted = FALSE
    /\ metaM = NewMetadataOGG /\ metaPrevPos = 0 /\ metaPc = "idle"
    /\ metaErr = "nil" /\ metaGiven = <<>>

----------------------------------------------------------------------------
(* Specifications.                                                         *)

ParsersIdle == WavIdle /\ FlacIdle /\ OggIdle /\ IdIdle
AuxIdle == Mp3Idle /\ BitsIdle /\ OffIdle /\ DsfIdle /\ MetaIdle

InitWAV == WavInit /\ FlacIdle /\ OggIdle /\ IdIdle /\ AuxIdle
NextWAV == WavReadHeader \/ WavReadChunk
SpecWAV == InitWAV /\ [][NextWAV]_vars

InitFLAC == FlacInit /\ WavIdle /\ OggIdle /\ IdIdle /\ AuxIdle
NextFLAC == FlacReadMagic \/ FlacReadBlock
SpecFLAC == InitFLAC /\ [][NextFLAC]_vars

InitID == IdInit /\ WavIdle /\ FlacIdle /\ OggIdle /\ AuxIdle
NextID == IdentifyPeek \/ IdentifyWav \/ IdentifyFallback
SpecID == InitID /\ [][NextID]_vars

InitOGG == OggInit /\ WavIdle /\ FlacIdle /\ IdIdle /\ AuxIdle
NextOGG == OggReadPage \/ OggReadDamaged \/ OggReadMalformed
SpecOGG == InitOGG /\ [][NextOGG]_vars

InitMP3 == Mp3Init /\ ParsersIdle /\ BitsIdle /\ OffIdle /\ DsfIdle /\ MetaIdle
NextMP3 == Mp3GetDuration
SpecMP3 == InitMP3 /\ [][NextMP3]_vars

InitBits == BitsInit /\ ParsersIdle /\ Mp3Idle /\ OffIdle /\ DsfIdle /\ MetaIdle
NextBits == CutBitsCall
SpecBits == InitBits /\ [][NextBits]_vars

InitOff == OffInit /\ ParsersIdle /\ Mp3Idle /\ BitsIdle /\ DsfIdle /\ MetaIdle
NextOff == SetWavOffset \/ SetWavOffsetId3
SpecOff == InitOff /\ [][NextOff]_vars

InitDSF == DsfInit /\ ParsersIdle /\ Mp3Idle /\ BitsIdle /\ OffIdle /\ MetaIdle
NextDSF == DsfReadHeader
SpecDSF == InitDSF /\ [][NextDSF]_vars

InitMeta == MetaInit /\ ParsersIdle /\ Mp3Idle /\ BitsIdle /\ OffIdle /\ DsfIdle
NextMeta == MetaReadPage \/ MetaReadEOF \/ MetaReadError
SpecMeta == InitMeta /\ [][NextMeta]_vars

----------------------------------------------------------------------------
(* Claims about ReadWAVMeta (SpecWAV).                                     *)

ReadWAVMetaDone == wavPc = "done"

\* C1, for the bit depths whose byte size the uint16 arithmetic holds
\* (B + 7 < 2^16): for every valid PCM stream built with sample rate R,
\* channels C, such a bit depth B and N sample frames, ReadWAVMeta succeeds,
\* FileType is WAV, Duration is within 1 millisecond of N/R seconds, and Raw
\* reports R, B and C exactly.
C1_DecodedBelowWrap ==
    (ReadWAVMetaDone /\ WavValid(wavGiven) /\ wavGiven.B + 7 < 65536) =>
        /\ wavErr = "nil"
        /\ wavFileType(wavM) = "WAV"
        /\ DurWithin(wavDuration(wavM), MulSecondDiv(wavGiven.N, wavGiven.R), 1000000)
        /\ wavRaw(wavM).sample_rate = wavGiven.R
        /\ wavRaw(wavM).bits_per_sample = wavGiven.B
        /\ wavRaw(wavM).channels = wavGiven.C

\* C1: for every valid PCM stream built with sample rate R, channels C, bit depth
\* B and N sample frames, ReadWAVMeta succeeds, FileType is WAV, Duration is
\* within 1 millisecond of N/R seconds, and Raw reports R, B and C exactly.
C1_ValidWavDecoded ==
    (ReadWAVMetaDone /\ WavValid(wavGiven)) =>
        /\ wavErr = "nil"
        /\ wavFileType(wavM) = "WAV"
        /\ DurWithin(wavDuration(wavM), MulSecondDiv(wavGiven.N, wavGiven.R), 1000000)
        /\ wavRaw(wavM).sample_rate = wavGiven.R
        /\ wavRaw(wavM).bits_per_sample = wavGiven.B
        /\ wavRaw(wavM).channels = wavGiven.C

\* a valid 12-bit stereo stream of 2 frames at 44100 Hz has been decoded
C1_Witness ==
    /\ ReadWAVMetaDone /\ WavValid(wavGiven)
    /\ wavGiven.R = 44100 /\ wavGiven.B = 12 /\ wavGiven.C = 2 /\ wavGiven.N = 2
    /\ wavM.dataSize = 8
    /\ wavDuration(wavM) = Dur(0, 45351)

\* a valid mono stream of 3 frames at 3 Hz with bit depth 65535 has been
\* decoded: Raw reports the bit depth, and the duration is 0 where N/R is 1 s
C1_WrapWitness ==
    /\ ReadWAVMetaDone /\ WavValid(wavGiven) /\ wavErr = "nil"
    /\ wavGiven.R = 3 /\ wavGiven.B = 65535 /\ wavGiven.C = 1 /\ wavGiven.N = 3
    /\ wavRaw(wavM).bits_per_sample = 65535
    /\ wavDuration(wavM) = ZeroDur

WavChunkProcessed == wavErr = "nil" /\ wavChunk # NoChunk

WavCursorAtNextChunk ==
    wavPos = wavChunk.p + 8 + wavChunk.L + (wavChunk.L % 2)

\* C8 as stated: after processing any chunk that starts at p with declared length
\* L the cursor is at p + 8 + L + (L mod 2), for every declared length, also of a
\* 'fmt ' chunk.
C8_AsStated == WavChunkProcessed => WavCursorAtNextChunk

\* C8, amended: the cursor is at p + 8 + L + (L mod 2) after every chunk other
\* than 'fmt ' and after a 'fmt ' chunk declaring at least 16 bytes; a 'fmt ' chunk
\* declaring fewer than 16 bytes has 16 bytes consumed all the same, which leaves
\* the cursor at p + 8 + 16 + (L mod 2).
C8_CursorAfterChunk ==
    WavChunkProcessed =>
        IF wavChunk.id = StrFmt /\ wavChunk.L < 16
        THEN wavPos = wavChunk.p + 8 + 16 + (wavChunk.L % 2)
        ELSE WavCursorAtNextChunk

\* a 'fmt ' chunk of odd declared length 17 has been processed
C8_Witness ==
    /\ WavChunkProcessed /\ wavChunk.id = StrFmt /\ wavChunk.L = 17
    /\ wavPos = wavChunk.p + 26

----------------------------------------------------------------------------
(* Claims about ReadFLACMeta (SpecFLAC).                                   *)

ReadFLACMetaDone == flacPc = "done"
ReadFLACMetaOk == flacPc = "done" /\ flacErr = "nil"

\* the header of block i of the given chain, as the walker should read it
FlacGivenHdr(i) ==
    [start |-> FlacOffset(flacGiven, i), type |-> flacGiven[i].type,
     len |-> Len(flacGiven[i].payload), last |-> flacGiven[i].last]

\* C6: the blocks are visited in file order, each once; the first block whose
\* last-block flag is set is processed and no block header is read after it,
\* whatever block types precede it; after each block of declared length L the
\* cursor is 4 + L bytes past the block's start.
C6_BlockWalk ==
    /\ \A i \in 1..Len(flacWalk) : i <= Len(flacGiven) => flacWalk[i] = FlacGivenHdr(i)
    /\ \A i \in 1..(Len(flacWalk) - 1) : ~flacWalk[i].last
    /\ (flacErr = "nil" /\ flacWalk # <<>>) =>
          flacPos = flacWalk[Len(flacWalk)].start + 4 + flacWalk[Len(flacWalk)].len
    /\ ReadFLACMetaOk => flacWalk # <<>> /\ flacWalk[Len(flacWalk)].last
    /\ (flacPc = "blocks" /\ flacWalk # <<>>) => ~flacWalk[Len(flacWalk)].last

\* a last stream-info block declaring 34 bytes, of which the stream holds 20, has
\* been processed without an error, and the cursor is 24 bytes past its start
C6_Witness ==
    /\ ReadFLACMetaOk
    /\ Len(flacWalk) = 1 /\ flacWalk[1].type = streamInfoBlock /\ flacWalk[1].last
    /\ flacWalk[1].len = 34 /\ Len(flacStream) = 28
    /\ flacPos = flacWalk[1].start + 4 + 20

\* the stream-info block the walker processed last, if any (0: none)
FlacLastInfo ==
    LET idx == {i \in 1..Min(Len(flacWalk), Len(flacGiven)) : flacGiven[i].rate >= 0}
    IN  IF idx = {} THEN 0 ELSE CHOOSE i \in idx : \A j \in idx : j <= i

\* C7: the Metadata ReadFLACMeta returns reports Duration = sampleCount /
\* sampleRate seconds, from the fields of the stream-info block.
C7_DurationFromStreamInfo ==
    (ReadFLACMetaOk /\ FlacLastInfo > 0) =>
        flacDuration(flacM) = SecondMulDiv(flacGiven[FlacLastInfo].samples,
                                           flacGiven[FlacLastInfo].rate)

----------------------------------------------------------------------------
(* Claims about Identify (SpecID).                                         *)

IdentifyDone == idPc = "done"

\* b[i:j] of the stream, for the bytes from offset `at`
IdSlice(at, i, j) == SubSeq(idStream, at + i + 1, at + j)

IdIsFLaC(at) == IdSlice(at, 0, 4) = StrFLaC
IdIsOggS(at) == IdSlice(at, 0, 4) = StrOggS
IdIsFtyp(at) == IdSlice(at, 4, 8) = StrFtyp
IdIsID3(at)  == IdSlice(at, 0, 3) = StrID3
IdIsWAV(at)  == IdSlice(at, 0, 4) = StrRIFF /\ IdSlice(at, 8, 12) = StrWAVE

\* what the magic rules 1-4 give for the 12 bytes at offset `at`, with the file
\* type replaced by WAV when wav holds
IdRuled(at, wav) ==
    /\ IdIsFLaC(at) =>
         idRes = IdResult("VORBIS", IF wav THEN "WAV" ELSE "FLAC", "nil")
    /\ (~IdIsFLaC(at) /\ IdIsOggS(at)) =>
         idRes = IdResult("VORBIS", IF wav THEN "WAV" ELSE "OGG", "nil")
    /\ (~IdIsFLaC(at) /\ ~IdIsOggS(at) /\ IdIsFtyp(at)) =>
         /\ idRes.format = "MP4" /\ idRes.err = "nil"
         /\ idRes.fileType =
              IF wav THEN "WAV"
              ELSE IF IdSlice(at, 8, 11) = StrM4A THEN "M4A"
              ELSE IF IdSlice(at, 8, 11) = StrM4B THEN "M4B"
              ELSE IF IdSlice(at, 8, 11) = StrM4P THEN "M4P"
              ELSE "UnknownFileType"
    /\ (~IdIsFLaC(at) /\ ~IdIsOggS(at) /\ ~IdIsFtyp(at) /\ IdIsID3(at)) =>
         /\ idStream[at + 4] = 2 => idRes = IdResult("ID3v2_2", IF wav THEN "WAV" ELSE "MP3", "nil")
         /\ idStream[at + 4] = 3 => idRes = IdResult("ID3v2_3", IF wav THEN "WAV" ELSE "MP3", "nil")
         /\ idStream[at + 4] = 4 => idRes = IdResult("ID3v2_4", IF wav THEN "WAV" ELSE "MP3", "nil")
         /\ idStream[at + 4] \notin {2, 3, 4} => idRes.err = "ID3 version"

\* C2: with at least 12 readable bytes Identify classifies by the first rule
\* that matches, in the order fLaC, OggS, ftyp, ID3; an earlier rule wins.
C2_FirstMatchWins ==
    (IdentifyDone /\ Len(idStream) >= 12) => IdRuled(0, FALSE)

\* 'ID3' at bytes 0-2 together with 'ftyp' at bytes 4-7 has been reported as MP4
C2_Witness ==
    /\ IdentifyDone /\ Len(idStream) >= 12
    /\ IdIsID3(0) /\ IdIsFtyp(0) /\ IdSlice(0, 8, 11) = StrM4B
    /\ idRes = IdResult("MP4", "M4B", "nil")

\* C9 as stated: for every stream with 'RIFF' at bytes 0-3 and 'WAVE' at bytes
\* 8-11 Identify returns file type WAV on every return path.
C9_AsStated ==
    (IdentifyDone /\ Len(idStream) >= 12 /\ IdIsWAV(0)) => idRes.fileType = "WAV"

\* C9, amended: for every stream with 'RIFF' at bytes 0-3 and 'WAVE' at bytes
\* 8-11 whose bytes 4-7 are not 'ftyp', Identify returns file type WAV on every
\* return path: with the error when setWavOffset fails, and else with what the
\* nested call finds (format or error) in the bytes after the audio payload,
\* from the cursor setWavOffset left there.
C9_WavOnEveryPath ==
    (IdentifyDone /\ Len(idStream) >= 12 /\ IdIsWAV(0) /\ ~IdIsFtyp(0)) =>
        /\ idRes.fileType = "WAV"
        /\ idDepth = 0 => idRes.err # "nil" /\ idRes.format = "UnknownFormat"
        /\ idDepth = 1 => idEntry >= 44 + Uint32LE(IdSlice(0, 40, 44))
        /\ idDepth >= 1 =>
             IF Len(idStream) >= idEntry + 12 THEN IdRuled(idEntry, TRUE)
             ELSE idRes.err \in {"EOF", "ErrUnexpectedEOF"}

\* the nested identification failed on an ID3 version byte of 1, and the error
\* came back with file type WAV
C9_Witness ==
    /\ IdentifyDone /\ IdIsWAV(0) /\ idDepth = 1
    /\ Len(idStream) >= idEntry + 12
    /\ IdIsID3(idEntry) /\ idStream[idEntry + 4] = 1
    /\ idRes = IdResult("UnknownFormat", "WAV", "ID3 version")

IdNoMagic ==
    ~IdIsFLaC(0) /\ ~IdIsOggS(0) /\ ~IdIsFtyp(0) /\ ~IdIsID3(0) /\ ~IdIsWAV(0)

\* the 3 bytes 128 bytes before the end of the stream are 'TAG'
IdTagAtEnd ==
    Len(idStream) >= 128 /\ SubSeq(idStream, Len(idStream) - 127, Len(idStream) - 125) = StrTAG

\* C10 as stated: every stream of at least 12 bytes that matches no magic rule
\* gives (ID3v1, MP3) if the 3 bytes 128 before the end are 'TAG' and else
\* fails with ErrNoTagsFound.
C10_AsStated ==
    (IdentifyDone /\ Len(idStream) >= 12 /\ IdNoMagic) =>
        IF IdTagAtEnd THEN idRes = IdResult("ID3v1", "MP3", "nil")
        ELSE idRes.err = "ErrNoTagsFound"

\* C10, amended: every stream of at least 128 bytes that matches no magic rule
\* gives (ID3v1, MP3) if the 3 bytes 128 before the end are 'TAG' and else fails
\* with ErrNoTagsFound; a stream of 12 to 127 bytes that matches no magic rule
\* fails with the error of the seek to 128 bytes before the end.
C10_Fallback ==
    (IdentifyDone /\ Len(idStream) >= 12 /\ IdNoMagic) =>
        IF Len(idStream) < 128 THEN idRes.err = "seek"
        ELSE IF IdTagAtEnd THEN idRes = IdResult("ID3v1", "MP3", "nil")
        ELSE idRes.err = "ErrNoTagsFound"

\* a 140-byte stream without magic and with 'TAG' 128 bytes before its end has
\* been identified as (ID3v1, MP3)
C10_Witness ==
    /\ IdentifyDone /\ Len(idStream) = 140 /\ IdNoMagic /\ IdTagAtEnd
    /\ idRes = IdResult("ID3v1", "MP3", "nil")

----------------------------------------------------------------------------
(* Claims about oggDemuxer.Read (SpecOGG).                                 *)

\* a Read call is made in this step
OggCalled == oggCalls' = oggCalls + 1

\* the serial numbers of the pages accepted so far
OggSeen == {oggTruth.log[i] : i \in DOMAIN oggTruth.log}

\* the page the call of this step reads
OggPageRead == OggMenu[oggRes'.in.n]

\* the number of segments shorter than 255 bytes
OggBoundaries(segs) == Cardinality({i \in DOMAIN segs : Len(segs[i]) < 255})

\* C3: in a session of valid pages (a page with the continuation flag has an
\* earlier page of its serial number) in which every page that continues an
\* unfinished packet carries the flag, the packets a call returns are the
\* concatenations of its serial number's segments since the previous packet
\* boundary, one per terminating segment of its page; the call leaves the
\* buffers of the other serial numbers alone, and a page that completes no
\* packet gives an empty list and a nil error.
C3_PacketsReassembled ==
    [][(/\ OggCalled /\ oggRes'.in.kind = "page"
        /\ oggTruth.pre
        /\ oggTruth.pend[OggPageRead.serial] # <<>> => OggPageRead.continued
        /\ OggPageRead.continued => OggPageRead.serial \in OggSeen)
       =>
       /\ oggRes'.err = "nil"
       /\ oggRes'.packets =
            OggTruthWalk(oggTruth.pend[OggPageRead.serial], OggPageRead.segs, 1, <<>>).packets
       /\ Len(oggRes'.packets) = OggBoundaries(OggPageRead.segs)
       /\ OggBoundaries(OggPageRead.segs) = 0 => oggRes'.packets = <<>>
       /\ oggBufs'[OggPageRead.serial].buf = Flatten(oggTruth'.pend[OggPageRead.serial])
       /\ \A t \in OggSerials \ {OggPageRead.serial} : oggBufs'[t] = oggBufs[t]
      ]_vars

\* a packet of 257 bytes begun on one page of serial number 258 has been
\* completed by the next page of 258, a page of 66000 with an unfinished packet
\* of its own read in between
C3_Witness ==
    /\ oggTruth.pre /\ oggTruth.log = <<258, 66000, 258>>
    /\ oggRes.err = "nil" /\ Len(oggRes.packets) = 2
    /\ Len(oggRes.packets[1]) = 257 /\ oggRes.packets[2] = <<>>
    /\ Len(oggBufs[66000].buf) = 255

\* C4: a page is accepted only if the checksum recomputed over it equals the
\* stored one: no page of a conforming writer fails the checksum, and a page
\* with one payload byte changed fails it and yields no packets.
C4_ChecksumGate ==
    /\ oggRes.in.kind = "page" => oggRes.err # "crc"
    /\ oggRes.in.kind = "damaged" => oggRes.err = "crc" /\ oggRes.packets = <<>>
    /\ oggRes.in.kind \notin {"none", "page"} => oggRes.err # "nil"

\* a damaged page has been rejected after a page was accepted
C4_Witness ==
    /\ oggRes.in.kind = "damaged" /\ oggRes.err = "crc"
    /\ oggTruth.log # <<>>

\* C5 as stated: a page with the continuation flag fails with the orphaned
\* continuation error whenever no unterminated packet is pending for its serial
\* number, also when the previous page of that serial number completed a packet.
C5_AsStated ==
    [][(/\ OggCalled /\ oggRes'.in.kind = "page"
        /\ OggPageRead.continued
        /\ oggTruth.pend[OggPageRead.serial] = <<>>)
       => oggRes'.err = "could not find continued packet"
      ]_vars

\* C5, amended: a page with the continuation flag fails with the orphaned
\* continuation error, returning no packets and leaving the buffers alone,
\* exactly when no earlier page of its serial number has been accepted in the
\* session; after a page of its serial number that ended with a completed packet
\* it is accepted and its segments start a new packet.
C5_OrphanedContinuation ==
    [][(/\ OggCalled /\ oggRes'.in.kind = "page"
        /\ OggPageRead.continued)
       =>
       IF OggPageRead.serial \notin OggSeen
       THEN /\ oggRes'.err = "could not find continued packet"
            /\ oggRes'.packets = <<>>
            /\ oggBufs' = oggBufs
       ELSE /\ oggRes'.err = "nil"
            /\ (oggTruth.pre /\ oggTruth.pend[OggPageRead.serial] = <<>>) =>
                 oggRes'.packets = OggTruthWalk(<<>>, OggPageRead.segs, 1, <<>>).packets
      ]_vars

\* a page of serial number 66000 with the continuation flag has been rejected
\* as orphaned while a page of serial number 258 had been accepted
C5_Witness ==
    /\ oggRes.in.kind = "page" /\ OggMenu[oggRes.in.n].serial = 66000
    /\ oggRes.err = "could not find continued packet"
    /\ oggTruth.log = <<258>>

\* the call that returned took the ID3v1 fallback to its end
IdFellBack == idRes.format = "ID3v1" \/ idRes.err = "ErrNoTagsFound"

\* the call that returned decided on the 12 bytes peeked
IdPeekDecided ==
    idRes.format \in {"VORBIS", "MP4", "ID3v2_2", "ID3v2_3", "ID3v2_4"}
    \/ idRes.err = "ID3 version"

\* C17 as stated: in every outcome that does not take the RIFF/WAVE branch (the
\* FLAC, OGG, MP4 and ID3 results, and both outcomes of the ID3v1 fallback) the
\* cursor is where it was on entry.
C17_AsStated ==
    (IdentifyDone /\ idDepth = 0 /\ (IdPeekDecided \/ IdFellBack)) => idPos = idEntry

\* C17, amended: a call that decides on the 12 bytes peeked returns with the
\* cursor where it was on entry; a call that takes the ID3v1 fallback to its end
\* returns with the cursor at offset 3 of the stream, wherever it was on entry.
C17_CursorAfterIdentify ==
    IdentifyDone =>
        /\ IdPeekDecided => idPos = idEntry
        /\ IdFellBack => idPos = 3

\* a nested call entered at an offset past 3 has found 'TAG' 128 bytes before the
\* end, and the cursor is at offset 3
C17_Witness ==
    /\ IdentifyDone /\ idDepth = 1 /\ idEntry > 3
    /\ idRes = IdResult("ID3v1", "WAV", "nil")
    /\ idPos = 3

----------------------------------------------------------------------------
(* getMP3Duration.                                                         *)

GetMP3DurationDone == mp3Pc = "done"

Mp3Given == mp3Fields(mp3Header)

\* none of the four table indices is a reserved value
Mp3NonReserved(f) ==
    /\ f.version # mpegReserved
    /\ f.layer # layerReserved
    /\ f.bitrateIndex < 15
    /\ f.samplerateIndex < 3

\* the frame size of the formula, in exact arithmetic
Mp3ExactFrameSize(f) ==
    (samplesPerFrame[f.version + 1][f.layer + 1]
        * bitrates[f.version + 1][f.layer + 1][f.bitrateIndex + 1] * 125)
       \div sampleRates[f.version + 1][f.samplerateIndex + 1]
    + (IF f.padding = 1 THEN slotSize[f.layer + 1] ELSE 0)
    + (IF f.protection = 1 THEN 2 ELSE 0)
    + 4

\* sec is a whole number nearest to p / q (either neighbour at a tie)
NearestSecond(sec, p, q) == 2 * Abs(sec * q - p) <= q

\* C12: for every header whose version, layer, bitrate index and sample-rate
\* index are not reserved, getMP3Duration returns
\* (strippedSize / frameSize) x (samplesPerFrame / sampleRate) seconds rounded
\* to the nearest whole second, with frameSize = floor(samplesPerFrame /
\* sampleRate x bitrateKbps x 1000 / 8) + slotSize[layer] if the padding bit
\* is set + 2 if the protection bit is set + 4.
C12_AsStated ==
    (GetMP3DurationDone /\ Mp3NonReserved(Mp3Given)) =>
        /\ mp3Res.err = "nil"
        /\ mp3Res.dur.nsec = 0
        /\ NearestSecond(mp3Res.dur.sec,
                         mp3Size * samplesPerFrame[Mp3Given.version + 1][Mp3Given.layer + 1],
                         Mp3ExactFrameSize(Mp3Given)
                            * sampleRates[Mp3Given.version + 1][Mp3Given.samplerateIndex + 1])

\* MPEG2.5 Layer3, 24 kbps, 8000 Hz, protection bit set, 1535 bytes: the
\* frame is 216 + 2 + 4 = 222 bytes and 1535 / 222 x 0.072 s is below half a
\* second, yet one second is returned.
C12_Witness ==
    /\ GetMP3DurationDone
    /\ mp3Header = <<255, 227, 56, 0>> /\ mp3Size = 1535
    /\ Mp3ExactFrameSize(Mp3Given) = 222
    /\ mp3FrameSize(Mp3Given) = 221
    /\ mp3Res = Mp3Result("nil", Dur(1, 0), FALSE)

\* The example of the claim: MPEG1 Layer3, 128 kbps, 44100 Hz, no padding, no
\* protection, 100 frames of 421 bytes give 3 s.
C12_ExampleE ==
    (GetMP3DurationDone /\ mp3Header = <<255, 250, 144, 0>> /\ mp3Size = 42100) =>
        mp3Res = Mp3Result("nil", Dur(3, 0), FALSE)

\* C15: for every 4-byte header every table lookup of getMP3Duration is within
\* the table's bounds: the function returns a duration or an error and never
\* aborts with an index-out-of-range failure.
C15_NoIndexPanic ==
    GetMP3DurationDone => mp3Res.err # "panic: index out of range"

\* MPEG1 Layer3 with bitrate index 15, and with sample-rate index 3
C15_Witness ==
    /\ GetMP3DurationDone
    /\ mp3Header \in {<<255, 250, 240, 0>>, <<255, 250, 12, 0>>}
    /\ mp3Res.err = "panic: index out of range"

----------------------------------------------------------------------------
(* cutBits.                                                                *)

CutBitsDone == bitsPc = "done"

\* C13: cutBits returns an error exactly when n > 64 or offset + n exceeds
\* 8 x len(buffer); otherwise it returns the bits [offset, offset + n) of the
\* buffer, most significant first, so that a value packed by the reference
\* packer at (offset, n) is read back unchanged.
C13_CutBits ==
    CutBitsDone =>
        /\ bitsRes.err # "nil" <=> (bitsN > 64 \/ bitsOffset + bitsN > 8 * Len(bitsIn))
        /\ bitsRes.err = "nil" =>
              /\ bitsRes.val = U64OfBits([i \in 1..bitsN |-> BufBit(bitsIn, bitsOffset + i - 1)])
              /\ bitsRes.val = U64OfBits(bitsPacked)

\* a 64-bit value read back from an unaligned offset
C13_Witness ==
    /\ CutBitsDone /\ bitsN = 64 /\ bitsOffset = 13 /\ Len(bitsIn) = 11
    /\ bitsPacked = BitPattern("alt", 64)
    /\ bitsIn[1] = 255
    /\ bitsRes = [err |-> "nil", val |-> U64OfBits(bitsPacked)]

----------------------------------------------------------------------------
(* setWavOffset.                                                           *)

SetWavOffsetDone == offPc = "done"

\* the three bytes after the audio payload spell 'id3'
OffId3Follows ==
    /\ Len(offStream) >= OffPayloadEnd(offGiven) + 3
    /\ SubSeq(offStream, OffPayloadEnd(offGiven) + 1, OffPayloadEnd(offGiven) + 3) = StrId3

\* C14: on every RIFF/WAVE stream that contains a data chunk, whatever chunks
\* precede it, setWavOffset succeeds and leaves the cursor at the first byte
\* after the audio payload, 8 bytes further only when the 3 bytes there are
\* 'id3'.
C14_ChunkScan ==
    SetWavOffsetDone =>
        /\ offErr = "nil"
        /\ offPos = OffPayloadEnd(offGiven) + (IF OffId3Follows THEN 8 ELSE 0)

\* an 18-byte fmt chunk directly before the data chunk: ReadWAVMeta's scan
\* reaches the data chunk, setWavOffset looks for 'data' at offset 36
C14_Witness ==
    /\ SetWavOffsetDone
    /\ offGiven.fmtLen = 18 /\ offGiven.pre = -1 /\ offGiven.N = 2 /\ offGiven.tail = "none"
    /\ wavLoopBody(offStream, 12, NewMetadataWAV).err = "nil"
    /\ wavLoopBody(offStream, 12, NewMetadataWAV).pos = 38
    /\ SubSeq(offStream, 39, 42) = StrData
    /\ offErr = "not data"

----------------------------------------------------------------------------
(* Zero sample rates.                                                      *)

\* the header of the given DSF stream is whole and declares sample rate 0
DsfZeroRate ==
    /\ dsfGiven.magic = StrDSD /\ dsfGiven.len >= 72 /\ dsfGiven.rate = 0

\* C16: no parser divides by a zero sample rate: when the sample rate decoded
\* from the stream is 0, the parser finishes with a zero duration or a
\* returned error, never with an integer division by zero.  Here for
\* ReadDSFMeta.
C16_NoZeroDivide ==
    (dsfPc \in {"tags", "done"} /\ DsfZeroRate) =>
        /\ dsfErr # "panic: integer divide by zero"
        /\ dsfErr = "nil" => dsfDuration = ZeroDur

\* a whole DSF header with sample rate 0 and 7 samples
C16_Witness ==
    /\ dsfPc = "done" /\ DsfZeroRate /\ dsfGiven.samples = 7
    /\ readUint32LittleEndian(dsfStream, 56).val = 0
    /\ dsfErr = "panic: integer divide by zero"

\* The same for the stream-info step of ReadFLACMeta (SpecFLAC).
C16_FlacNoZeroDivide ==
    flacPc = "done" => flacErr # "panic: integer divide by zero"

\* ReadDSFMeta with a non-zero rate: whole seconds, truncated
C16_DsfDuration ==
    (dsfPc = "tags") =>
        /\ dsfGiven.rate > 0
        /\ dsfDuration = Dur(dsfGiven.samples \div dsfGiven.rate, 0)
        /\ dsfPos = dsfGiven.pointer

----------------------------------------------------------------------------
(* ReadOGGMeta.                                                            *)

\* ReadOGGMeta has returned from the end-of-stream branch
ReadOGGMetaAtEnd == metaPc = "done" /\ metaErr \in {"nil", "ErrNoTagsFound"}

\* the pages the given stream holds in full
MetaWhole ==
    IF metaGiven.end = "whole" THEN metaGiven.pages
    ELSE SubSeq(metaGiven.pages, 1, Len(metaGiven.pages) - 1)

\* a comment packet (Vorbis or Opus) is among them
MetaCommentGiven ==
    \E i \in 1..Len(MetaWhole) : MetaMenu[MetaWhole[i]].kind \in {"comment", "opus"}

\* the sample rate the stream gives: that of the last identification or
\* OpusTags packet (0 when there is none)
MetaRateGiven ==
    LET at == {i \in 1..Len(MetaWhole) : MetaMenu[MetaWhole[i]].kind \in {"ident", "opus"}}
    IN  IF at = {} THEN 0
        ELSE MetaMenu[MetaWhole[CHOOSE i \in at : \A j \in at : j <= i]].rate

\* C11: when ReadOGGMeta reaches end-of-stream after a comment packet and with
\* a sample rate S > 0 (from the identification packet, or 48000 after
\* OpusTags), it returns the metadata and Duration is G / S whole seconds,
\* truncated, G being the granule position of the last page of the stream
\* (a 64-bit two's complement number).
C11_DurationAtEnd ==
    (ReadOGGMetaAtEnd /\ MetaCommentGiven /\ MetaRateGiven > 0) =>
        /\ metaErr = "nil"
        /\ metaM.sampleRate = MetaRateGiven
        /\ metaM.duration
             = Dur(Quo(MetaMenu[MetaWhole[Len(MetaWhole)]].granule, MetaRateGiven), 0)

\* identification (44100 Hz), comment, audio up to sample 100000: 2 s
C11_Witness ==
    /\ ReadOGGMetaAtEnd /\ metaGiven = [pages |-> <<1, 4, 8>>, end |-> "whole"]
    /\ metaPrevPos = 100000 /\ metaM.sampleRate = 44100
    /\ metaM.duration = Dur(2, 0)

\* an OpusTags page and an audio page up to sample 47999: 0 s
C11_OpusWitness ==
    /\ ReadOGGMetaAtEnd /\ metaGiven = [pages |-> <<5, 7>>, end |-> "whole"]
    /\ metaM = [sampleRate |-> 48000, duration |-> ZeroDur]

\* with a sample rate of 0 the duration stays zero and nothing is divided
C11_ZeroRate ==
    (ReadOGGMetaAtEnd /\ metaM.sampleRate = 0) => metaM.duration = ZeroDur

====
